---- MODULE Spec2Model ----
(***************************************************************************)
(* Chain inscription planner and signer (coin-bitcoin, inscribe_chain).    *)
(* State machine of one inscribeChain call: the tool is created and the    *)
(* request validated, the planner loop assembles one chain per funding     *)
(* output, every chain is signed, and the result envelope is packaged.     *)
(* Indices recorded by the code (chainIndex, txIndex, contextIndex, vout)  *)
(* keep their 0-based values; TLA+ sequences are 1-based, so element i of  *)
(* a JavaScript array a is a[i + 1] here.                                  *)
(***************************************************************************)
EXTENDS Integers, Sequences, FiniteSets, TLC

VARIABLES
    request,                  \* the InscriptionRequest handed to inscribeChain
    pc,                       \* "start", "build", "sign", "package", "done"
    inscriptionTxCtxDataList, \* tool.inscriptionTxCtxDataList
    txChains,                 \* tool.txChains
    totalEstimatedFee,        \* tool.totalEstimatedFee
    chainContextMapping,      \* tool.chainContextMapping
    txFees,                   \* tool.txFees
    inscriptionStartIndex,    \* planner cursor over the inscriptions
    currentUtxoIndex,         \* planner cursor over the funding outputs
    signChainIndex,           \* chains signed so far by signAllTransactions
    randomDraws,              \* calls of base.randomBytes made so far
    hashed,                   \* the serializations hashed so far (see getHash)
    result,                   \* the ChainInscribeResult returned (NoResult before)
    firstRun,                 \* the result of an earlier call on the same request
    estimate                  \* one call of estimateFeeAndOutput and what it returned

vars == << request, pc, inscriptionTxCtxDataList, txChains, totalEstimatedFee,
           chainContextMapping, txFees, inscriptionStartIndex, currentUtxoIndex,
           signChainIndex, randomDraws, hashed, result, firstRun,
           estimate >>

----------------------------------------------------------------------------
(* Program constants *)

\* 0xfffffffd (opts in to replace-by-fee); kept as text, it exceeds 32 bits
DEFAULT_SEQUENCE_NUM == "0xfffffffd"
MAX_TRANSACTIONS_PER_CHAIN == 25
DEFAULT_TX_VERSION == 2
DEFAULT_REVEAL_OUT_VALUE == 546
DEFAULT_MIN_CHANGE_VALUE == 546

(* Bounds of the model *)

MaxInscriptions == 30
MaxUtxos == 2
\* the greatest input value the estimator is called with on its own
MaxInputValue == 4000

(* Values the request is drawn from *)

AddressTypes == {"legacy", "segwit", "segwit_nested", "segwit_taproot"}
Amounts == {200, 2000, 60000}
\* fee rates in sat/vB as fractions: (commit, reveal) = (2.0, 2.5) and (0.5, 0.5)
FeeRatePairs == { << [num |-> 2, den |-> 1], [num |-> 5, den |-> 2] >>,
                  << [num |-> 1, den |-> 2], [num |-> 1, den |-> 2] >> }
\* (revealOutValue, minChangeValue); 0 stands for a field the request omits
ValuePairs == { << 0, 0 >>, << 330, 3000 >> }

----------------------------------------------------------------------------
(* Arithmetic helpers *)

Max(a, b) == IF a >= b THEN a ELSE b
Min(a, b) == IF a <= b THEN a ELSE b
\* Math.ceil(a / b) for a >= 0, b > 0
CeilDiv(a, b) == (a + b - 1) \div b

RECURSIVE SumFees(_)
SumFees(s) == IF s = << >> THEN 0 ELSE Head(s).fee + SumFees(Tail(s))

----------------------------------------------------------------------------
(* Keys, addresses and scripts.  Byte strings are modelled by the data     *)
(* they are computed from, so two are equal exactly when that data is.     *)

\* privateKeyFromWIF: the raw key a WIF string encodes
privateKeyFromWIF(wif) == [priv |-> wif]
\* private2Wif: the WIF string of a raw key
private2Wif(key) == key.priv
\* wif2Public(...).slice(1): the x-only public key
XOnlyPublic(wif) == [xonly |-> wif]
\* private2public
private2public(key) == [pub |-> key.priv]
\* bcrypto.hash160
hash160(pubkey) == [h160 |-> pubkey.pub]

\* bitcoin.address.toOutputScript: an address decodes to its script
toOutputScript(address) ==
    CASE address.type = "legacy"         -> [op |-> "p2pkh",  prog |-> address.prog]
      [] address.type = "segwit"         -> [op |-> "p2wpkh", prog |-> address.prog]
      [] address.type = "segwit_nested"  -> [op |-> "p2sh",   prog |-> address.prog]
      [] address.type = "segwit_taproot" -> [op |-> "p2tr",   prog |-> address.prog]

\* getAddressType
getAddressType(address) == address.type

\* byte length of an output script
ScriptLen(script) ==
    CASE script.op = "p2pkh"  -> 25
      [] script.op = "p2wpkh" -> 22
      [] script.op = "p2sh"   -> 23
      [] script.op = "p2tr"   -> 34

\* base.reverseBuffer(base.fromHex(txId)) and back: byte order of a hash
reverseBuffer(b) == [order |-> IF b.order = "be" THEN "le" ELSE "be", bytes |-> b.bytes]

----------------------------------------------------------------------------
(* Inscription contexts (createInscriptionTxCtxData) *)

\* bytes of a data push of len bytes in a compiled script
PushSize(len) == len + (IF len < 76 THEN 1 ELSE IF len < 256 THEN 2 ELSE 3)

\* the body is pushed in chunks of at most maxChunkSize = 520 bytes
BodyPushBytes(len) ==
    (len \div 520) * PushSize(520) + (IF len % 520 = 0 THEN 0 ELSE PushSize(len % 520))

\* compiled script: <pubkey> OP_CHECKSIG OP_FALSE OP_IF "ord" OP_DATA_1 OP_DATA_1
\* <contentType> OP_0 <body chunks> OP_ENDIF
InscriptionScript(internalPubKey, inscriptionData) ==
    [ pub         |-> internalPubKey,
      contentType |-> inscriptionData.contentType.text,
      body        |-> inscriptionData.body.nonce,
      len         |-> PushSize(32) + 3 + PushSize(3) + 2
                      + PushSize(inscriptionData.contentType.len) + 1
                      + BodyPushBytes(inscriptionData.body.len) + 1 ]

\* bitcoin.payments.p2tr with a single-leaf script tree, leaf version 0xc0
TapLeafHash(script) == [tapleaf |-> script, version |-> 192]
TapTweak(internalPubKey, leafHash) == [internal |-> internalPubKey, merkle |-> leafHash]
ControlBlock(internalPubKey) == [version |-> 192, internal |-> internalPubKey, len |-> 33]

createInscriptionTxCtxData(inscriptionData, privateKeyWif) ==
    LET internalPubKey == XOnlyPublic(privateKeyWif)
        inscriptionScript == InscriptionScript(internalPubKey, inscriptionData)
        hash == TapLeafHash(inscriptionScript)
        prog == TapTweak(internalPubKey, hash)
    IN  [ privateKey              |-> privateKeyFromWIF(privateKeyWif),
          inscriptionScript       |-> inscriptionScript,
          commitTxAddress         |-> [type |-> "segwit_taproot", prog |-> prog],
          commitTxAddressPkScript |-> [op |-> "p2tr", prog |-> prog],
          witness                 |-> << inscriptionScript, ControlBlock(internalPubKey) >>,
          hash                    |-> hash,
          revealPkScript          |-> toOutputScript(inscriptionData.revealAddr) ]

----------------------------------------------------------------------------
(* Transactions (bitcoinjs-lib Transaction) *)

EmptyScript == << >>
NewTransaction == [version |-> DEFAULT_TX_VERSION, ins |-> << >>, outs |-> << >>]
addInput(tx, hash, index, sequence) ==
    [tx EXCEPT !.ins = Append(@, [hash |-> hash, index |-> index, sequence |-> sequence,
                                  script |-> EmptyScript, witness |-> << >>])]
addOutput(tx, script, value) ==
    [tx EXCEPT !.outs = Append(@, [script |-> script, value |-> value])]

\* the part of an input that the txid covers: everything but the witness
StripWitness(in) == [hash |-> in.hash, index |-> in.index, sequence |-> in.sequence,
                     script |-> in.script]

\* the serialization a txid is the hash of: the transaction without witnesses
NonWitnessSerialization(tx) ==
    [ version |-> tx.version,
      ins     |-> [i \in 1..Len(tx.ins) |-> StripWitness(tx.ins[i])],
      outs    |-> tx.outs ]

\* A hash is modelled by a digest that names what was hashed: table lists the
\* serializations hashed so far, and the digest of one is its position there, so
\* equal serializations have equal digests and different ones different digests.
Position(table, serialization) ==
    LET at == {k \in 1..Len(table) : table[k] = serialization}
    IN  IF at = {} THEN 0 ELSE CHOOSE k \in at : TRUE
Hashed(table, tx) ==
    LET serialization == NonWitnessSerialization(tx)
    IN  IF Position(table, serialization) # 0 THEN table ELSE Append(table, serialization)
\* Transaction.getHash, with table = Hashed(_, tx)
getHash(table, tx) ==
    [order |-> "le", bytes |-> [digest |-> Position(table, NonWitnessSerialization(tx))]]
\* Transaction.getId: the hash, byte-reversed, in hex
getId(table, tx) == reverseBuffer(getHash(table, tx))
\* Transaction.toHex: the full serialization, witnesses included
toHex(tx) == [hex |-> tx]

RECURSIVE SumLen(_)
SumLen(stack) == IF stack = << >> THEN 0 ELSE Head(stack).len + SumLen(Tail(stack))

VarIntSize(n) == IF n < 253 THEN 1 ELSE 3

RECURSIVE StackBytes(_)
\* serialized size of the items of a script_sig or witness stack
StackBytes(stack) ==
    IF stack = << >> THEN 0
    ELSE VarIntSize(Head(stack).len) + Head(stack).len + StackBytes(Tail(stack))

RECURSIVE InsBaseBytes(_)
InsBaseBytes(ins) ==
    IF ins = << >> THEN 0
    ELSE 32 + 4 + VarIntSize(StackBytes(Head(ins).script)) + StackBytes(Head(ins).script) + 4
         + InsBaseBytes(Tail(ins))

RECURSIVE InsWitnessBytes(_)
InsWitnessBytes(ins) ==
    IF ins = << >> THEN 0
    ELSE VarIntSize(Len(Head(ins).witness)) + StackBytes(Head(ins).witness)
         + InsWitnessBytes(Tail(ins))

RECURSIVE OutsBytes(_)
OutsBytes(outs) ==
    IF outs = << >> THEN 0
    ELSE 8 + VarIntSize(ScriptLen(Head(outs).script)) + ScriptLen(Head(outs).script)
         + OutsBytes(Tail(outs))

HasWitnesses(tx) == \E i \in 1..Len(tx.ins) : tx.ins[i].witness # << >>

\* countAdjustedVsize: BIP141 weight / 4, rounded up
countAdjustedVsize(tx) ==
    LET base == 4 + VarIntSize(Len(tx.ins)) + InsBaseBytes(tx.ins)
                  + VarIntSize(Len(tx.outs)) + OutsBytes(tx.outs) + 4
        wit  == IF HasWitnesses(tx) THEN 2 + InsWitnessBytes(tx.ins) ELSE 0
    IN  CeilDiv(4 * base + wit, 4)

----------------------------------------------------------------------------
(* signTx: signs the funding input(s) of a commit transaction *)

EcdsaSignature(privateKey) == [sig |-> "ecdsa", by |-> privateKey, len |-> 72]
\* variant: the signer draws fresh entropy, whatever the source is set to return
RandomBytesFresh(k) == [random |-> k, fresh |-> firstRun.returned]

\* base.randomBytes(32): the k-th value the randomness source returns in a run
RandomBytes(k) == [random |-> k]
\* schnorr.sign(hash, privateKey, auxRand): the signature depends on the
\* auxiliary randomness it is given
SchnorrSignature(privateKey, auxRand) ==
    [sig |-> "schnorr", by |-> privateKey, len |-> 64, aux |-> auxRand]
taprootTweakPrivKey(privateKey) == [priv |-> privateKey.priv, tweaked |-> TRUE]
PublicKeyBytes(privateKey) ==
    [pub |-> private2public(privateKey).pub, len |-> 33]
RedeemScript(privateKey) ==
    [redeem |-> hash160(private2public(privateKey)), len |-> 22]

\* the input as signTx leaves it, by the address type of the output it spends
SignedInput(input, prevOutput, auxRand) ==
    LET addressType == getAddressType(prevOutput.address)
        privateKey  == privateKeyFromWIF(prevOutput.privateKey)
    IN  IF addressType = "segwit_taproot"
        THEN [input EXCEPT !.witness =
                 << SchnorrSignature(taprootTweakPrivKey(privateKey), auxRand) >>]
        ELSE IF addressType = "legacy"
        THEN [input EXCEPT !.script =
                 << EcdsaSignature(privateKey), PublicKeyBytes(privateKey) >>]
        ELSE IF addressType = "segwit_nested"
        THEN [input EXCEPT !.witness =
                 << EcdsaSignature(privateKey), PublicKeyBytes(privateKey) >>,
                           !.script = << RedeemScript(privateKey) >>]
        ELSE [input EXCEPT !.witness =
                 << EcdsaSignature(privateKey), PublicKeyBytes(privateKey) >>]

\* base.randomBytes calls made by signTx: one per taproot input
SignTxDraws(tx, commitTxPrevOutputList) ==
    Cardinality({i \in 1..Len(tx.ins) :
                    getAddressType(commitTxPrevOutputList[i].address) = "segwit_taproot"})

\* draws is the number of base.randomBytes calls made before this one of signTx
signTx(tx, commitTxPrevOutputList, draws) ==
    [tx EXCEPT !.ins = [i \in 1..Len(tx.ins) |->
        SignedInput(tx.ins[i], commitTxPrevOutputList[i],
                    RandomBytes(draws + SignTxDraws([tx EXCEPT !.ins = SubSeq(tx.ins, 1, i)],
                                                    commitTxPrevOutputList)))]]

----------------------------------------------------------------------------
(* Errors.  A thrown Error is modelled by its message: the text that names *)
(* the failure and the values interpolated into it.                        *)

NoError == [text |-> "", args |-> << >>]
Error(text, args) == [text |-> text, args |-> args]

\* contextIndex recorded for a commit transaction (null)
NullContext == -1
\* changeAmount sentinels of estimateFeeAndOutput; -Infinity is a value below
\* every amount the model reaches
CHANGE_DROPPED == -1
NegInfinity == -(2^30)

----------------------------------------------------------------------------
(* estimateFeeAndOutput *)

EmptySignature == [sig |-> "zero", len |-> 64]

\* the clone the estimator sizes: dry-run signed (commit) or carrying a
\* placeholder script-path witness (reveal).  The clone is dropped after it is
\* sized, and the value its signature drew with it: only the call is counted.
TxForEstimate(tx, inputs, isCommitTx, inscriptionCtx) ==
    IF isCommitTx
    THEN signTx(tx, inputs, 0)
    ELSE [tx EXCEPT !.ins[1].witness = << EmptySignature >> \o inscriptionCtx.witness]

\* variant: the fee is not raised to one satoshi per virtual byte
FeeForVsizeNoFloor(vsize, feeRate) == CeilDiv(vsize * feeRate.num, feeRate.den)

\* Math.max(Math.ceil(vsize * feeRate), vsize)
FeeForVsize(vsize, feeRate) == Max(CeilDiv(vsize * feeRate.num, feeRate.den), vsize)

\* tx.outs with the element at 0-based index idx spliced out
SpliceOut(outs, idx) ==
    [k \in 1..(Len(outs) - 1) |-> IF k <= idx THEN outs[k] ELSE outs[k + 1]]

\* variant: the transaction without change is taken to be affordable
CoversWithoutChangeAlways(totalInputValue, fixedOutputValue, feeWithoutChange) == TRUE

\* if (totalInputValue >= fixedOutputValue + feeWithoutChange)
CoversWithoutChange(totalInputValue, fixedOutputValue, feeWithoutChange) ==
    totalInputValue >= fixedOutputValue + feeWithoutChange

\* variant: any change that is not negative is kept, however small
ChangeBelowZero(changeAmount, minChangeValue) == changeAmount < 0

\* if (!(changeAmount >= minChangeValue))
ChangeBelowMinimum(changeAmount, minChangeValue) == ~(changeAmount >= minChangeValue)

\* variant: the fee is not taken out of the change
ChangeAmountFeeFree(totalInputValue, fixedOutputValue, fee) == totalInputValue - fixedOutputValue

\* const changeAmount = totalInputValue - fixedOutputValue - fee
ChangeAmountOf(totalInputValue, fixedOutputValue, fee) == totalInputValue - fixedOutputValue - fee

estimateFeeAndOutput(tx, inputs, feeRate, totalInputValue, fixedOutputValue, minChangeValue, isCommitTx, inscriptionCtx) ==
    LET vsize == countAdjustedVsize(TxForEstimate(tx, inputs, isCommitTx, inscriptionCtx))
        fee == FeeForVsize(vsize, feeRate)
        changeAmount == ChangeAmountOf(totalInputValue, fixedOutputValue, fee)
        changeOutputIndex == IF isCommitTx THEN -1 ELSE 1
        txWithoutChange == [tx EXCEPT !.outs = SpliceOut(@, changeOutputIndex)]
        vsizeWithoutChange ==
            countAdjustedVsize(TxForEstimate(txWithoutChange, inputs, isCommitTx, inscriptionCtx))
        feeWithoutChange == FeeForVsize(vsizeWithoutChange, feeRate)
    IN  IF changeOutputIndex # -1 /\ Len(tx.outs) > changeOutputIndex
           /\ ChangeBelowMinimum(changeAmount, minChangeValue)
        THEN IF CoversWithoutChange(totalInputValue, fixedOutputValue, feeWithoutChange)
             THEN [fee |-> feeWithoutChange, changeAmount |-> CHANGE_DROPPED]
             ELSE [fee |-> fee, changeAmount |-> NegInfinity]
        ELSE [fee |-> fee, changeAmount |-> changeAmount]

----------------------------------------------------------------------------
(* buildSingleUtxoChain *)

\* the input list the estimator is given for a reveal: a simulated taproot input
RevealEstimateInputs(utxo, prevOutputValue, firstInscriptionCtx) ==
    << [utxo EXCEPT !.amount = prevOutputValue,
                    !.address = firstInscriptionCtx.commitTxAddress,
                    !.privateKey = ""] >>

\* variant: every reveal sends its change to the final change address
ChangeAddressAlwaysFinal(isLastReveal, finalChangeAddress, inscriptions, i) ==
    finalChangeAddress

\* isLastReveal ? finalChangeAddress : inscriptions[i + 1]?.commitTxAddress
ChangeAddressFor(isLastReveal, finalChangeAddress, inscriptions, i) ==
    IF isLastReveal THEN finalChangeAddress ELSE inscriptions[i + 2].commitTxAddress

\* variant: the test is missing, any reveal may drop its change
MayDropAnywhere(isLastReveal) == FALSE

\* if (!isLastReveal) throw: a reveal that is not the last must carry change
MustCarryChange(isLastReveal) == ~isLastReveal

\* variant: the fee is pushed to the ledger but not added to the total
RecordFeeLedgerOnly(st, chainIndex, txIndex, fee) ==
    [st EXCEPT !.txFees = Append(@, [chainIndex |-> chainIndex, txIndex |-> txIndex,
                                     fee |-> fee])]

\* this.totalEstimatedFee += fee; this.txFees.push({ chainIndex, txIndex, fee })
RecordFee(st, chainIndex, txIndex, fee) ==
    [st EXCEPT !.totalEstimatedFee = @ + fee,
               !.txFees = Append(@, [chainIndex |-> chainIndex, txIndex |-> txIndex,
                                     fee |-> fee])]

\* variant: any negative change amount is taken for the -Infinity sentinel
IsInsufficientAnyNegative(revealChangeAmount) == revealChangeAmount < 0

\* if (revealChangeAmount === -Infinity)
IsInsufficient(revealChangeAmount) == revealChangeAmount = NegInfinity

\* variant: the index within the chain is recorded, not the index in the list
ContextIndexWithinChain(inscriptionCtxStartIndex, i) == i

\* const contextIndexForThisReveal = inscriptionCtxStartIndex + i
ContextIndexFor(inscriptionCtxStartIndex, i) == inscriptionCtxStartIndex + i

\* One iteration of the reveal loop for inscription i (0-based) of the chain.
\* st holds the method's locals and the tool fields it appends to; a.* are its
\* parameters.
RevealIteration(i, st, a) ==
    LET inscriptionCount == Len(a.inscriptions)
        inscriptionCtx == a.inscriptions[i + 1]
        firstInscriptionCtx == a.inscriptions[1]
        isLastReveal == (i = inscriptionCount - 1)
        currentTxIndex == Len(st.txChain)
        contextIndexForThisReveal == ContextIndexFor(a.inscriptionCtxStartIndex, i)
        currentChangeAddress ==
            ChangeAddressFor(isLastReveal, a.finalChangeAddress, a.inscriptions, i)
        table == Hashed(st.hashed, st.prevTx)
        revealTx0 ==
            addOutput(
                addOutput(
                    addInput(NewTransaction, getHash(table, st.prevTx), st.prevOutputIndex,
                             DEFAULT_SEQUENCE_NUM),
                    inscriptionCtx.revealPkScript, a.revealOutValue),
                toOutputScript(currentChangeAddress), 0)
        estInputs == RevealEstimateInputs(a.utxo, st.prevOutputValue, firstInscriptionCtx)
        est == estimateFeeAndOutput(revealTx0, estInputs, a.revealFeeRate,
                                    st.prevOutputValue, a.revealOutValue,
                                    a.minChangeValue, FALSE, inscriptionCtx)
        revealFee == est.fee
        revealChangeAmount == est.changeAmount
        revealTxNoChange == [revealTx0 EXCEPT !.outs = SubSeq(@, 1, Len(@) - 1)]
        revealFeeNoChange ==
            estimateFeeAndOutput(revealTxNoChange, estInputs, a.revealFeeRate,
                                 st.prevOutputValue, a.revealOutValue, 0, FALSE,
                                 inscriptionCtx).fee
        revealTxChange == [revealTx0 EXCEPT !.outs[2].value = revealChangeAmount]
    IN  IF currentChangeAddress.type = ""
        THEN [st EXCEPT !.err = Error("cannot determine reveal change address",
                                      << a.chainIndex, i >>)]
        ELSE IF IsInsufficient(revealChangeAmount)
        THEN [st EXCEPT !.err = Error("chain broken: balance cannot cover reveal fee + dust",
                                      << a.chainIndex, i, st.prevOutputValue, revealFee,
                                         a.revealOutValue >>)]
        ELSE IF revealChangeAmount = CHANGE_DROPPED
        THEN IF MustCarryChange(isLastReveal)
             THEN [st EXCEPT !.err = Error("chain broken: non-final reveal must carry change",
                                           << a.chainIndex, i, st.prevOutputValue, revealFee,
                                              a.revealOutValue, a.minChangeValue >>)]
             ELSE [RecordFee(st, a.chainIndex, currentTxIndex, revealFeeNoChange) EXCEPT
                     !.hashed = table,
                     !.chainContextMapping =
                         Append(@, [chainIndex |-> a.chainIndex, txIndex |-> currentTxIndex,
                                    contextIndex |-> contextIndexForThisReveal]),
                     !.prevOutputValue = 0,
                     !.txChain = Append(@, revealTxNoChange),
                     !.prevTx = revealTxNoChange,
                     !.prevOutputIndex = IF isLastReveal THEN -1 ELSE 1]
        ELSE IF revealChangeAmount >= a.minChangeValue
        THEN [RecordFee(st, a.chainIndex, currentTxIndex, revealFee) EXCEPT
                !.hashed = table,
                !.chainContextMapping =
                    Append(@, [chainIndex |-> a.chainIndex, txIndex |-> currentTxIndex,
                               contextIndex |-> contextIndexForThisReveal]),
                !.prevOutputValue = revealChangeAmount,
                !.txChain = Append(@, revealTxChange),
                !.prevTx = revealTxChange,
                !.prevOutputIndex = 1]
        ELSE [st EXCEPT !.err = Error("unexpected change amount",
                                      << a.chainIndex, i, revealChangeAmount >>)]

RECURSIVE RevealLoopOffByOne(_, _, _)
\* variant: the loop test is i < inscriptionCount - 1
RevealLoopOffByOne(i, st, a) ==
    IF i >= Len(a.inscriptions) - 1 \/ st.err # NoError \/ st.prevOutputIndex = -1
    THEN st
    ELSE RevealLoopOffByOne(i + 1, RevealIteration(i, st, a), a)

RECURSIVE RevealLoop(_, _, _)
\* for (let i = 0; i < inscriptionCount; i++) { ... if (prevOutputIndex === -1) break }
RevealLoop(i, st, a) ==
    IF i >= Len(a.inscriptions) \/ st.err # NoError \/ st.prevOutputIndex = -1
    THEN st
    ELSE RevealLoop(i + 1, RevealIteration(i, st, a), a)

\* variant: the test of the commit output amount is missing
CommitUnfundedNever(commitOutputAmount) == FALSE

\* if (commitOutputAmount < 0)
CommitUnfunded(commitOutputAmount) == commitOutputAmount < 0

\* The whole method.  tool holds the three tool fields the method appends to
\* and the table of hashes; the result carries them as the method leaves them
\* when it returns or throws.
\* variant: the commit pays to the commit script of the chain's last inscription
LastInscriptionCtx(inscriptions) == inscriptions[Len(inscriptions)]

\* const firstInscriptionCtx = inscriptions[0]
FirstInscriptionCtx(inscriptions) == inscriptions[1]

buildSingleUtxoChain(tool, utxo, inscriptions, revealOutValue, revealFeeRate, finalChangeAddress, minChangeValue, commitFeeRate, inscriptionCtxStartIndex, chainIndex) ==
    LET firstInscriptionCtx == FirstInscriptionCtx(inscriptions)
        utxoHash == reverseBuffer(utxo.txId)
        commitTx0 ==
            addOutput(addInput(NewTransaction, utxoHash, utxo.vOut, DEFAULT_SEQUENCE_NUM),
                      firstInscriptionCtx.commitTxAddressPkScript, 0)
        est == estimateFeeAndOutput(commitTx0, << utxo >>, commitFeeRate, utxo.amount,
                                    0, minChangeValue, TRUE, firstInscriptionCtx)
        initialCommitFee == est.fee
        commitOutputAmount == est.changeAmount
        initialCommitTx == [commitTx0 EXCEPT !.outs[1].value = commitOutputAmount]
        st0 == [ err                 |-> NoError,
                 txChain             |-> << >>,
                 totalEstimatedFee   |-> tool.totalEstimatedFee,
                 txFees              |-> tool.txFees,
                 chainContextMapping |-> tool.chainContextMapping,
                 hashed              |-> tool.hashed,
                 draws               |-> SignTxDraws(commitTx0, << utxo >>),
                 prevTx              |-> commitTx0,
                 prevOutputValue     |-> 0,
                 prevOutputIndex     |-> 0 ]
        a == [ utxo |-> utxo, inscriptions |-> inscriptions,
               revealOutValue |-> revealOutValue, revealFeeRate |-> revealFeeRate,
               finalChangeAddress |-> finalChangeAddress,
               minChangeValue |-> minChangeValue,
               inscriptionCtxStartIndex |-> inscriptionCtxStartIndex,
               chainIndex |-> chainIndex ]
    IN  IF Len(inscriptions) = 0
        THEN [st0 EXCEPT !.draws = 0]
        ELSE IF CommitUnfunded(commitOutputAmount)
        THEN [st0 EXCEPT !.err = Error("balance cannot cover initial commit fee",
                                       << chainIndex, utxo.txId, utxo.vOut, utxo.amount,
                                          initialCommitFee >>)]
        ELSE RevealLoop(0,
                [RecordFee(st0, chainIndex, 0, initialCommitFee) EXCEPT
                    !.chainContextMapping =
                        Append(@, [chainIndex |-> chainIndex, txIndex |-> 0,
                                   contextIndex |-> NullContext]),
                    !.txChain = << initialCommitTx >>,
                    !.prevTx = initialCommitTx,
                    !.prevOutputValue = commitOutputAmount,
                    !.prevOutputIndex = 0],
                a)

----------------------------------------------------------------------------
(* signAllTransactions *)

\* this.chainContextMapping.find(m => m.chainIndex === c && m.txIndex === t):
\* the 1-based position of the first match, 0 when there is none
FindIndex(records, c, t) ==
    LET hits == {k \in 1..Len(records) :
                    records[k].chainIndex = c /\ records[k].txIndex = t}
    IN  IF hits = {} THEN 0 ELSE CHOOSE k \in hits : \A h \in hits : k <= h

\* variant: only the script types are compared
ScriptsMatchByType(commitTxAddressPkScript, prevOutScript) ==
    commitTxAddressPkScript.op = prevOutScript.op

\* inscriptionCtx.commitTxAddressPkScript.equals(prevOutScript)
ScriptsMatch(commitTxAddressPkScript, prevOutScript) ==
    commitTxAddressPkScript = prevOutScript

\* variant: the signature is put after the script and the control block
ScriptPathWitnessSignatureLast(inscriptionCtx, auxRand) ==
    inscriptionCtx.witness \o << SchnorrSignature(inscriptionCtx.privateKey, auxRand) >>

\* [Buffer.from(signature), ...witnessForSigning]
ScriptPathWitness(inscriptionCtx, auxRand) ==
    << SchnorrSignature(inscriptionCtx.privateKey, auxRand) >> \o inscriptionCtx.witness

\* One iteration of chain.forEach for the reveal at txIndex >= 1.
\* s = [err, chain, prevTxOutputs, draws]; draws counts the calls of
\* base.randomBytes made so far in the run
SignReveal(s, chainIndex, txIndex, mapping, ctxList) ==
    LET tx == s.chain[txIndex + 1]
        outputSpentIndex == tx.ins[1].index
        at == FindIndex(mapping, chainIndex, txIndex)
        contextIndex == mapping[at].contextIndex
        inscriptionCtx == ctxList[contextIndex + 1]
        prevOutScript == s.prevTxOutputs[outputSpentIndex + 1].script
    IN  IF outputSpentIndex >= Len(s.prevTxOutputs)
        THEN [s EXCEPT !.err = Error("sign: spends a missing output of the previous tx",
                                     << chainIndex, txIndex, outputSpentIndex >>)]
        ELSE IF at = 0 \/ contextIndex = NullContext
        THEN [s EXCEPT !.err = Error("sign: no context mapping for the transaction",
                                     << chainIndex, txIndex >>)]
        ELSE IF contextIndex + 1 > Len(ctxList)
        THEN [s EXCEPT !.err = Error("sign: no context for the mapped index",
                                     << chainIndex, txIndex, contextIndex >>)]
        ELSE IF ~ScriptsMatch(inscriptionCtx.commitTxAddressPkScript, prevOutScript)
        THEN [s EXCEPT !.err = Error("sign: spent script does not match the context",
                                     << chainIndex, txIndex >>)]
        ELSE [s EXCEPT !.chain[txIndex + 1].ins[1].witness =
                           ScriptPathWitness(inscriptionCtx, RandomBytes(s.draws + 1)),
                       !.prevTxOutputs = tx.outs,
                       !.draws = @ + 1]

RECURSIVE SignChainLoop(_, _, _, _, _, _)
\* chain.forEach((tx, txIndex) => ...) for one chain; a throw ends the loop
SignChainLoop(s, chainIndex, txIndex, initialUtxo, mapping, ctxList) ==
    IF txIndex >= Len(s.chain) \/ s.err # NoError
    THEN s
    ELSE SignChainLoop(
            IF txIndex = 0
            THEN [s EXCEPT !.chain[1] = signTx(@, << initialUtxo >>, s.draws),
                           !.prevTxOutputs = s.chain[1].outs,
                           !.draws = @ + SignTxDraws(s.chain[1], << initialUtxo >>)]
            ELSE SignReveal(s, chainIndex, txIndex, mapping, ctxList),
            chainIndex, txIndex + 1, initialUtxo, mapping, ctxList)

----------------------------------------------------------------------------
(* inscribeChain: packaging of the result *)

NoResult == [success |-> FALSE, returned |-> FALSE]
\* no call of the estimator on its own has returned
NoEstimate == [returned |-> FALSE]
EmptyHex == [hex |-> [op |-> "none"]]
EmptyString == ""
scriptToHex(script) == [hex |-> script]

\* variant: the request's revealOutValue is ignored
RevealOutValueDefaultOnly(req) == DEFAULT_REVEAL_OUT_VALUE

\* request.revealOutValue || DEFAULT_REVEAL_OUT_VALUE
RevealOutValueInForce(req) ==
    IF req.revealOutValue # 0 THEN req.revealOutValue ELSE DEFAULT_REVEAL_OUT_VALUE

\* variant: the request's minChangeValue is ignored
MinChangeValueDefaultOnly(req) == DEFAULT_MIN_CHANGE_VALUE

MinChangeValueInForce(req) ==
    IF req.minChangeValue # 0 THEN req.minChangeValue ELSE DEFAULT_MIN_CHANGE_VALUE

\* variant: the catch block reports the fee the tool had accumulated
FailureResultKeepsTotal(error) ==
    [ success           |-> FALSE,
      returned          |-> TRUE,
      error             |-> IF error.text # "" THEN error ELSE Error("unknown error", << >>),
      txChains          |-> << >>,
      txChainTxIds      |-> << >>,
      lastTxDetails     |-> << >>,
      totalEstimatedFee |-> totalEstimatedFee ]

\* the catch block of inscribeChain
FailureResult(error) ==
    [ success           |-> FALSE,
      returned          |-> TRUE,
      error             |-> IF error.text # "" THEN error ELSE Error("unknown error", << >>),
      txChains          |-> << >>,
      txChainTxIds      |-> << >>,
      lastTxDetails     |-> << >>,
      totalEstimatedFee |-> 0 ]

\* the LastTxInfo of one chain of at least two transactions
LastTxInfoOf(table, chain, chainIndex, fees, mapping, ctxList, req) ==
    LET lastTxIndex == Len(chain) - 1
        lastTx == chain[lastTxIndex + 1]
        prevTx == chain[lastTxIndex]
        feeAt == FindIndex(fees, chainIndex, lastTxIndex)
        inputVout == lastTx.ins[1].index
        outputs == [k \in 1..Len(lastTx.outs) |->
                       [pkScriptHex |-> scriptToHex(lastTx.outs[k].script),
                        value |-> lastTx.outs[k].value]]
        mapAt == FindIndex(mapping, chainIndex, lastTxIndex)
        contextIndex == IF mapAt = 0 THEN NullContext ELSE mapping[mapAt].contextIndex
        hasContext == contextIndex # NullContext /\ contextIndex + 1 <= Len(ctxList)
        context == ctxList[contextIndex + 1]
    IN  [ txId                   |-> getId(table, lastTx),
          hex                    |-> toHex(lastTx),
          fee                    |-> IF feeAt = 0 THEN 0 ELSE fees[feeAt].fee,
          inputTxId              |-> getId(table, prevTx),
          inputVout              |-> inputVout,
          inputValue             |-> prevTx.outs[inputVout + 1].value,
          outputs                |-> outputs,
          signingPrivateKeyWIF   |-> IF hasContext THEN private2Wif(context.privateKey)
                                     ELSE EmptyString,
          finalChangeAddress     |-> req.changeAddress,
          revealOutValue         |-> RevealOutValueInForce(req),
          minChangeValue         |-> MinChangeValueInForce(req),
          prevInputPkScriptHex   |-> IF hasContext
                                     THEN scriptToHex(context.commitTxAddressPkScript)
                                     ELSE EmptyHex,
          revealPkScriptHex      |-> IF Len(outputs) > 0 THEN outputs[1].pkScriptHex
                                     ELSE EmptyHex,
          finalChangePkScriptHex |-> IF Len(outputs) > 1 THEN outputs[2].pkScriptHex
                                     ELSE EmptyHex,
          tapScriptTreeHashHex   |-> IF hasContext THEN [hex |-> context.hash]
                                     ELSE EmptyHex ]

RECURSIVE HashedAll(_, _)
\* the table after every transaction of the chain has been hashed
HashedAll(table, chain) ==
    IF chain = << >> THEN table ELSE HashedAll(Hashed(table, Head(chain)), Tail(chain))

RECURSIVE PackageChains(_, _, _, _, _, _, _)
\* tool.txChains.forEach((chain, chainIndex) => ...): acc is extended chain by chain
PackageChains(acc, chains, chainIndex, fees, mapping, ctxList, req) ==
    IF chainIndex >= Len(chains)
    THEN acc
    ELSE LET chain == chains[chainIndex + 1]
             lastTx == chain[Len(chain)]
             prevTx == chain[Len(chain) - 1]
             table == HashedAll(acc.hashed, chain)
             listed == [acc EXCEPT
                          !.hashed = table,
                          !.txChains = Append(@, [k \in 1..Len(chain) |-> toHex(chain[k])]),
                          !.txChainTxIds =
                              Append(@, [k \in 1..Len(chain) |-> getId(table, chain[k])])]
         IN  PackageChains(
                IF Len(chain) < 2
                THEN [acc EXCEPT !.txChains = Append(@, << >>),
                                 !.txChainTxIds = Append(@, << >>)]
                ELSE IF lastTx.ins[1].index >= Len(prevTx.outs)
                THEN listed
                ELSE [listed EXCEPT !.lastTxDetails =
                         Append(@, LastTxInfoOf(table, chain, chainIndex, fees, mapping,
                                                ctxList, req))],
                chains, chainIndex + 1, fees, mapping, ctxList, req)

\* the three lists of a successful result, and the table of hashes after them
PackagedLists(table, chains, fees, mapping, ctxList, req) ==
    PackageChains([txChains |-> << >>, txChainTxIds |-> << >>, lastTxDetails |-> << >>,
                   hashed |-> table],
                  chains, 0, fees, mapping, ctxList, req)

SuccessResult(lists, total) ==
    [ success           |-> TRUE,
      returned          |-> TRUE,
      error             |-> NoError,
      txChains          |-> lists.txChains,
      txChainTxIds      |-> lists.txChainTxIds,
      lastTxDetails     |-> lists.lastTxDetails,
      totalEstimatedFee |-> total ]

----------------------------------------------------------------------------
(* Requests *)

\* the recipient of inscription j: every inscription names its own
RevealAddressOf(j) ==
    [type |-> "segwit_taproot", prog |-> [owner |-> "recipient", inscription |-> j]]
ChangeAddress == [type |-> "segwit_taproot", prog |-> [owner |-> "change"]]

\* funding output k (1-based): its own txid and vout, the first one owned by
\* "wifA" and the others by "wifB"; the entry at position missing has no key
FundingOutput(k, amount, addressType, missing) ==
    LET wif == IF k = 1 THEN "wifA" ELSE "wifB"
    IN  [ txId       |-> [order |-> "be", bytes |-> [funding |-> k]],
          vOut       |-> k - 1,
          amount     |-> amount,
          address    |-> [type |-> addressType, prog |-> [owner |-> wif]],
          privateKey |-> IF k = missing THEN "" ELSE wif ]

\* inscription j (0-based): a text payload that carries j as a nonce
InscriptionDataAt(j) ==
    [ contentType |-> [text |-> "text/plain;charset=utf-8", len |-> 24],
      body        |-> [nonce |-> j, len |-> 66 + (IF j < 10 THEN 1 ELSE 2)],
      revealAddr  |-> RevealAddressOf(j) ]

\* the request built from the values drawn for it
RequestOf(n, m, amounts, addressType, missing, rates, values) ==
    [ commitTxPrevOutputList |->
          [k \in 1..m |-> FundingOutput(k, amounts[k], addressType, missing)],
      commitFeeRate       |-> rates[1],
      revealFeeRate       |-> rates[2],
      inscriptionDataList |-> [j \in 1..n |-> InscriptionDataAt(j - 1)],
      revealOutValue      |-> values[1],
      changeAddress       |-> ChangeAddress,
      minChangeValue      |-> values[2] ]

Init ==
    /\ \E n \in 0..MaxInscriptions, m \in 0..MaxUtxos :
         \E amounts \in [1..m -> Amounts], addressType \in AddressTypes,
            missing \in 0..m, rates \in FeeRatePairs, values \in ValuePairs :
            request = RequestOf(n, m, amounts, addressType, missing, rates, values)
    /\ pc = "start"
    /\ inscriptionTxCtxDataList = << >>
    /\ txChains = << >>
    /\ totalEstimatedFee = 0
    /\ chainContextMapping = << >>
    /\ txFees = << >>
    /\ inscriptionStartIndex = 0
    /\ currentUtxoIndex = 0
    /\ signChainIndex = 0
    /\ randomDraws = 0
    /\ hashed = << >>
    /\ result = NoResult
    /\ firstRun = NoResult
    /\ estimate = NoEstimate

----------------------------------------------------------------------------
(* Actions *)

\* the 1-based position of the first funding entry without a private key, or 0
FirstWithoutKey(list) ==
    LET bad == {k \in 1..Len(list) : list[k].privateKey = ""}
    IN  IF bad = {} THEN 0 ELSE CHOOSE k \in bad : \A b \in bad : k <= b

\* variant: the funding entries are not examined for their private keys
ValidationErrorIgnoresKeys(req) ==
    IF Len(req.commitTxPrevOutputList) = 0
    THEN Error("commitTxPrevOutputList must not be empty", << >>)
    ELSE IF Len(req.inscriptionDataList) = 0
    THEN Error("inscriptionDataList must not be empty", << >>)
    ELSE NoError

\* what newChainInscriptionTool throws on an invalid request
ValidationError(req) ==
    IF Len(req.commitTxPrevOutputList) = 0
    THEN Error("commitTxPrevOutputList must not be empty", << >>)
    ELSE IF Len(req.inscriptionDataList) = 0
    THEN Error("inscriptionDataList must not be empty", << >>)
    ELSE IF FirstWithoutKey(req.commitTxPrevOutputList) # 0
    THEN Error("funding entry lacks privateKey",
               << FirstWithoutKey(req.commitTxPrevOutputList) - 1 >>)
    ELSE NoError

\* variant: each batch of contexts would take the key of the last funding output
primaryPrivateKeyWifOfLast(req) ==
    req.commitTxPrevOutputList[Len(req.commitTxPrevOutputList)].privateKey

\* const primaryPrivateKeyWif = request.commitTxPrevOutputList[0].privateKey
primaryPrivateKeyWif(req) == req.commitTxPrevOutputList[1].privateKey

\* newChainInscriptionTool up to the call of buildEnhancedInscriptionChains:
\* validation, then one context per inscription from the key of funding output 0
NewTool ==
    /\ pc = "start"
    /\ IF ValidationError(request) # NoError
       THEN /\ pc' = "done"
            /\ result' = FailureResult(ValidationError(request))
            /\ UNCHANGED inscriptionTxCtxDataList
       ELSE /\ pc' = "build"
            /\ inscriptionTxCtxDataList' =
                  [j \in 1..Len(request.inscriptionDataList) |->
                      createInscriptionTxCtxData(request.inscriptionDataList[j],
                                                 primaryPrivateKeyWif(request))]
            /\ UNCHANGED result
    /\ UNCHANGED << request, firstRun, estimate, txChains, totalEstimatedFee, chainContextMapping, txFees,
                    inscriptionStartIndex, currentUtxoIndex, signChainIndex, randomDraws,
                    hashed >>

\* variant: the commit is not counted against the transaction limit
maxInscriptionsPerChainWholeLimit == MAX_TRANSACTIONS_PER_CHAIN
maxInscriptionsPerChain == MAX_TRANSACTIONS_PER_CHAIN - 1

\* variant: the message names the inscriptions still unplaced, not their total
UtxoCountErrorNamesRemaining(utxoCount, totalInscriptions) ==
    Error("UTXO count insufficient",
          << utxoCount, totalInscriptions - inscriptionStartIndex >>)

\* the Error thrown when the funding outputs run out before the inscriptions
UtxoCountError(utxoCount, totalInscriptions) ==
    Error("UTXO count insufficient", << utxoCount, totalInscriptions >>)

\* variant: signing starts as soon as one chain is assembled
PhaseAfterChainSignsEarly(cursor, totalInscriptions, chains) ==
    IF chains = 0 THEN "package" ELSE "sign"

\* where the run goes after a chain is assembled: the planner loop goes on
\* while inscriptions are left, then signAllTransactions is called, which
\* returns at once when there is no chain
PhaseAfterChain(cursor, totalInscriptions, chains) ==
    IF cursor < totalInscriptions THEN "build"
    ELSE IF chains = 0 THEN "package"
    ELSE "sign"

\* variant: the inscription cursor is left where it was
InscriptionCursorStuck(startIndex, countForThisChain) == startIndex

\* inscriptionStartIndex += countForThisChain
AdvanceInscriptionCursor(startIndex, countForThisChain) == startIndex + countForThisChain

\* variant: the last funding output is given up before it is tried
UtxosExhaustedOneEarly(utxoIndex, utxoCount) == utxoIndex + 1 >= utxoCount

\* if (currentUtxoIndex >= utxoCount)
UtxosExhausted(utxoIndex, utxoCount) == utxoIndex >= utxoCount

\* One iteration of the sequential-fill loop of buildEnhancedInscriptionChains,
\* the call of buildSingleUtxoChain included; the loop test that follows it
\* decides whether signing starts.
PlanChain ==
    /\ pc = "build"
    /\ inscriptionStartIndex < Len(inscriptionTxCtxDataList)
    /\ LET totalInscriptions == Len(inscriptionTxCtxDataList)
           utxoCount == Len(request.commitTxPrevOutputList)
           utxo == request.commitTxPrevOutputList[currentUtxoIndex + 1]
           remainingInscriptions == totalInscriptions - inscriptionStartIndex
           countForThisChain == Min(remainingInscriptions, maxInscriptionsPerChain)
           segmentEndIndex == inscriptionStartIndex + countForThisChain
           inscriptionsForThisChain ==
               SubSeq(inscriptionTxCtxDataList, inscriptionStartIndex + 1, segmentEndIndex)
           currentChainIndex == Len(txChains)
       IN  IF UtxosExhausted(currentUtxoIndex, utxoCount)
           THEN /\ pc' = "done"
                /\ result' = FailureResult(UtxoCountError(utxoCount, totalInscriptions))
                /\ UNCHANGED << txChains, totalEstimatedFee, chainContextMapping, txFees,
                                inscriptionStartIndex, currentUtxoIndex, randomDraws,
                                hashed >>
           ELSE \E built \in
                 { buildSingleUtxoChain(
                     [totalEstimatedFee |-> totalEstimatedFee, txFees |-> txFees,
                      chainContextMapping |-> chainContextMapping, hashed |-> hashed],
                     utxo, inscriptionsForThisChain, RevealOutValueInForce(request),
                     request.revealFeeRate, request.changeAddress,
                     MinChangeValueInForce(request), request.commitFeeRate,
                     inscriptionStartIndex, currentChainIndex) } :
                /\ totalEstimatedFee' = built.totalEstimatedFee
                /\ txFees' = built.txFees
                /\ chainContextMapping' = built.chainContextMapping
                /\ randomDraws' = randomDraws + built.draws
                /\ hashed' = built.hashed
                /\ IF built.err # NoError
                   THEN /\ pc' = "done"
                        /\ result' = FailureResult(built.err)
                        /\ UNCHANGED << txChains, inscriptionStartIndex, currentUtxoIndex >>
                   ELSE /\ txChains' = IF Len(built.txChain) > 0
                                       THEN Append(txChains, built.txChain)
                                       ELSE txChains
                        /\ inscriptionStartIndex' =
                               AdvanceInscriptionCursor(inscriptionStartIndex, countForThisChain)
                        /\ currentUtxoIndex' = currentUtxoIndex + 1
                        /\ pc' = PhaseAfterChain(inscriptionStartIndex', totalInscriptions,
                                                 Len(txChains'))
                        /\ UNCHANGED result
    /\ UNCHANGED << request, firstRun, estimate, inscriptionTxCtxDataList, signChainIndex >>

\* variant: every commit is signed as a spend of the first funding output
initialUtxoAlwaysFirst(commitTxPrevOutputList, chainIndex) == commitTxPrevOutputList[1]

\* const initialUtxo = commitTxPrevOutputList[chainIndex]
initialUtxoOf(commitTxPrevOutputList, chainIndex) == commitTxPrevOutputList[chainIndex + 1]

\* One iteration of this.txChains.forEach in signAllTransactions: the commit
\* and every reveal of chain signChainIndex are signed in order.
SignChain ==
    /\ pc = "sign"
    /\ signChainIndex < Len(txChains)
    /\ LET chainIndex == signChainIndex
           list == request.commitTxPrevOutputList
           skipped == chainIndex >= Len(list) \/ list[chainIndex + 1].privateKey = ""
       IN  IF skipped
           THEN /\ pc' = IF chainIndex + 1 < Len(txChains) THEN "sign" ELSE "package"
                /\ UNCHANGED << txChains, randomDraws, result >>
           ELSE \E signed \in
                 { SignChainLoop([err |-> NoError, chain |-> txChains[chainIndex + 1],
                                  prevTxOutputs |-> << >>, draws |-> randomDraws],
                                 chainIndex, 0, initialUtxoOf(list, chainIndex),
                                 chainContextMapping, inscriptionTxCtxDataList) } :
                /\ txChains' = [txChains EXCEPT ![chainIndex + 1] = signed.chain]
                /\ randomDraws' = signed.draws
                /\ IF signed.err # NoError
                   THEN /\ pc' = "done"
                        /\ result' = FailureResult(
                              Error("sign error", << chainIndex, signed.err >>))
                   ELSE /\ pc' = IF chainIndex + 1 < Len(txChains) THEN "sign"
                                 ELSE "package"
                        /\ UNCHANGED result
    /\ signChainIndex' = signChainIndex + 1
    /\ UNCHANGED << request, firstRun, estimate, inscriptionTxCtxDataList, totalEstimatedFee,
                    chainContextMapping, txFees, inscriptionStartIndex, currentUtxoIndex,
                    hashed >>

\* inscribeChain after the tool is returned: hex, txids and LastTxInfo per chain
Package ==
    /\ pc = "package"
    /\ \E lists \in { PackagedLists(hashed, txChains, txFees, chainContextMapping,
                                     inscriptionTxCtxDataList, request) } :
           /\ result' = SuccessResult(lists, totalEstimatedFee)
           /\ hashed' = lists.hashed
    /\ pc' = "done"
    /\ UNCHANGED << request, firstRun, estimate, inscriptionTxCtxDataList, txChains, totalEstimatedFee,
                    chainContextMapping, txFees, inscriptionStartIndex, currentUtxoIndex,
                    signChainIndex, randomDraws >>

Next == NewTool \/ PlanChain \/ SignChain \/ Package

Spec == Init /\ [][Next]_vars

\* a step of the call remains to be taken: the guards of the four actions,
\* each of which is total once its guard holds (try/catch turns every throw
\* into the failure return), so this is ENABLED <<Next>>_vars
Running ==
    \/ pc = "start"
    \/ pc = "build" /\ inscriptionStartIndex < Len(inscriptionTxCtxDataList)
    \/ pc = "sign" /\ signChainIndex < Len(txChains)
    \/ pc = "package"

\* inscribeChain is one synchronous call: the constructor, the planner loop,
\* the signer loop and the packaging run one after the other on a single
\* thread, so a step that can be taken is taken.  This is WF_vars(Next) with
\* ENABLED <<Next>>_vars written out as Running.
FairNext == []<>(~Running) \/ []<><<Next>>_vars

SpecLive == Spec /\ WF_vars(NewTool) /\ FairNext

----------------------------------------------------------------------------
(* A planner/signer desynchronisation: the tool's context list is a public,
   mutable field, and the signer reads each context's commit script again
   when it signs the reveal mapped to it. *)

\* a script of the same type and length with other bytes
AlteredScript(script) == [op |-> script.op, prog |-> [altered |-> script.prog]]

\* the (1-based) contexts whose commit script is no longer the script of their
\* commit address
AlteredContexts ==
    { j \in 1..Len(inscriptionTxCtxDataList) :
        inscriptionTxCtxDataList[j].commitTxAddressPkScript
            # toOutputScript(inscriptionTxCtxDataList[j].commitTxAddress) }

\* the commit script of one context is overwritten after the chains are built
\* and before the first of them is signed
AlterContext ==
    /\ pc = "sign"
    /\ signChainIndex = 0
    /\ AlteredContexts = {}
    /\ \E j \in 1..Len(inscriptionTxCtxDataList) :
           inscriptionTxCtxDataList' =
               [inscriptionTxCtxDataList EXCEPT
                   ![j].commitTxAddressPkScript = AlteredScript(@)]
    /\ UNCHANGED << request, firstRun, estimate, pc, txChains, totalEstimatedFee, chainContextMapping, txFees,
                    inscriptionStartIndex, currentUtxoIndex, signChainIndex, randomDraws,
                    hashed, result >>

NextFault == NewTool \/ PlanChain \/ AlterContext \/ SignChain \/ Package

SpecFault == Init /\ [][NextFault]_vars

----------------------------------------------------------------------------
(* estimateFeeAndOutput on its own: one call for a reveal candidate with a
   change slot, over a range of input values. *)

\* the reveal of the request's first inscription as buildSingleUtxoChain hands
\* it to the estimator: one input, the reveal output and a change output of 0
RevealCandidate(req, inscriptionCtx) ==
    addOutput(
        addOutput(
            addInput(NewTransaction, [order |-> "le", bytes |-> [digest |-> 0]], 0,
                     DEFAULT_SEQUENCE_NUM),
            inscriptionCtx.revealPkScript, RevealOutValueInForce(req)),
        toOutputScript(req.changeAddress), 0)

InitEstimator ==
    /\ \E addressType \in AddressTypes, rates \in FeeRatePairs, values \in ValuePairs :
           request = RequestOf(1, 1, [k \in 1..1 |-> MaxInputValue], addressType, 0,
                               rates, values)
    /\ pc = "estimate"
    /\ \E totalInputValue \in 0..MaxInputValue :
           estimate = [returned |-> FALSE, totalInputValue |-> totalInputValue]
    /\ inscriptionTxCtxDataList = << >>
    /\ txChains = << >>
    /\ totalEstimatedFee = 0
    /\ chainContextMapping = << >>
    /\ txFees = << >>
    /\ inscriptionStartIndex = 0
    /\ currentUtxoIndex = 0
    /\ signChainIndex = 0
    /\ randomDraws = 0
    /\ hashed = << >>
    /\ result = NoResult
    /\ firstRun = NoResult

\* the call and its return; tx is the candidate as it is after the call, which
\* works on clones of it only
EstimateReveal ==
    /\ pc = "estimate"
    /\ ~estimate.returned
    /\ LET inscriptionCtx ==
               createInscriptionTxCtxData(request.inscriptionDataList[1],
                                          primaryPrivateKeyWif(request))
           tx == RevealCandidate(request, inscriptionCtx)
           inputs == RevealEstimateInputs(request.commitTxPrevOutputList[1],
                                          estimate.totalInputValue, inscriptionCtx)
       IN  \E returned \in
               { estimateFeeAndOutput(tx, inputs, request.revealFeeRate,
                                      estimate.totalInputValue,
                                      RevealOutValueInForce(request),
                                      MinChangeValueInForce(request), FALSE,
                                      inscriptionCtx) } :
               estimate' = [ returned        |-> TRUE,
                             totalInputValue |-> estimate.totalInputValue,
                             tx              |-> tx,
                             inscriptionCtx  |-> inscriptionCtx,
                             fee             |-> returned.fee,
                             changeAmount    |-> returned.changeAmount ]
    /\ pc' = "done"
    /\ UNCHANGED << request, inscriptionTxCtxDataList, txChains, totalEstimatedFee,
                    chainContextMapping, txFees, inscriptionStartIndex, currentUtxoIndex,
                    signChainIndex, randomDraws, hashed, result, firstRun >>

NextEstimator == EstimateReveal

SpecEstimator == InitEstimator /\ [][NextEstimator]_vars

----------------------------------------------------------------------------
(* A second call of inscribeChain on the same network and request, with the
   randomness source set to return the same sequence of values again. *)

\* the first call has returned: its result is kept aside, a new tool starts
\* from its field initialisers and the randomness source is rewound.  The
\* hash function is the same in both calls, so its table stays.
RunAgain ==
    /\ pc = "done"
    /\ result.returned
    /\ ~firstRun.returned
    /\ firstRun' = result
    /\ result' = NoResult
    /\ pc' = "start"
    /\ inscriptionTxCtxDataList' = << >>
    /\ txChains' = << >>
    /\ totalEstimatedFee' = 0
    /\ chainContextMapping' = << >>
    /\ txFees' = << >>
    /\ inscriptionStartIndex' = 0
    /\ currentUtxoIndex' = 0
    /\ signChainIndex' = 0
    /\ randomDraws' = 0
    /\ UNCHANGED << request, hashed, estimate >>

NextTwoRuns == NewTool \/ PlanChain \/ SignChain \/ Package \/ RunAgain

SpecTwoRuns == Init /\ [][NextTwoRuns]_vars

----------------------------------------------------------------------------
(* Reading a returned result *)

\* the envelope of the success return of inscribeChain
Succeeded == result.returned /\ result.success
\* the envelope of its catch block
Failed == result.returned /\ ~result.success

\* transaction txIndex of chain chainIndex (both 0-based), decoded from the hex
\* the result lists for it
ResultTx(chainIndex, txIndex) == result.txChains[chainIndex + 1][txIndex + 1].hex

\* the context indices the mapping records for the reveals of a chain
ContextsOf(chainIndex) ==
    { chainContextMapping[j].contextIndex :
        j \in { j \in 1..Len(chainContextMapping) :
                  /\ chainContextMapping[j].chainIndex = chainIndex
                  /\ chainContextMapping[j].contextIndex # NullContext } }

\* the context the mapping gives transaction txIndex of a chain
ContextOf(chainIndex, txIndex) ==
    inscriptionTxCtxDataList[
        chainContextMapping[FindIndex(chainContextMapping, chainIndex, txIndex)].contextIndex
        + 1]

----------------------------------------------------------------------------
(* C1 *)

\* C1: outpoint continuity in the returned result.  In every chain of a
\* successful result, transaction i >= 1 has a single input whose hash is the
\* txid the result reports for transaction i - 1 (byte-reversed, as an input
\* stores it) and whose index is 0 when transaction i - 1 is the commit and 1
\* when it is a reveal.
OutpointContinuity ==
    Succeeded =>
        \A k \in 0..(Len(result.txChains) - 1) :
            \A i \in 1..(Len(result.txChains[k + 1]) - 1) :
                /\ Len(ResultTx(k, i).ins) = 1
                /\ ResultTx(k, i).ins[1].hash = reverseBuffer(result.txChainTxIds[k + 1][i])
                /\ ResultTx(k, i).ins[1].index = IF i = 1 THEN 0 ELSE 1

----------------------------------------------------------------------------
(* C2 *)

\* C2: chain count formula.  A request of n inscriptions that succeeds was
\* planned into exactly ceil(n / 24) chains, chain k (0-based) holding the
\* min(24, n - 24k) inscriptions that follow the 24k before it; 24
\* inscriptions give one chain of 25 transactions, 30 give chains of 25 and 7.
\* With m >= ceil(n / 24) funding outputs the call never fails for want of
\* funding outputs.
ChainCountFormula ==
    LET n == Len(request.inscriptionDataList)
        m == Len(request.commitTxPrevOutputList)
    IN  /\ Succeeded =>
            /\ n >= 1 /\ m >= CeilDiv(n, 24)
            /\ Len(txChains) = CeilDiv(n, 24)
            /\ Len(result.txChains) = CeilDiv(n, 24)
            /\ \A k \in 0..(Len(txChains) - 1) :
                   ContextsOf(k) = (24 * k)..(24 * k + Min(24, n - 24 * k) - 1)
            /\ n = 24 => Len(result.txChains[1]) = 25
            /\ n = 30 => Len(result.txChains[1]) = 25 /\ Len(result.txChains[2]) = 7
        /\ (Failed /\ m >= CeilDiv(n, 24)) => result.error.text # "UTXO count insufficient"

\* 30 inscriptions on two funding outputs came out as chains of 25 and 7
ChainCountWitness ==
    /\ Succeeded
    /\ Len(request.inscriptionDataList) = 30
    /\ Len(result.txChains) = 2
    /\ Len(result.txChains[1]) = 25
    /\ Len(result.txChains[2]) = 7

----------------------------------------------------------------------------
(* C3 *)

\* C3: chain length.  Every chain of a successful result has one transaction
\* more than the inscriptions assigned to it, between 2 and 25: first the
\* commit, which spends the chain's funding output, then one reveal per
\* assigned inscription, in order, each carrying its inscription in the witness;
\* txChainTxIds lists as many chains, each as long as its chain of txChains.
ChainLength ==
    Succeeded =>
        /\ Len(result.txChains) >= 1
        /\ Len(result.txChainTxIds) = Len(result.txChains)
        /\ \A k \in 0..(Len(result.txChains) - 1) :
               LET len == Len(result.txChains[k + 1])
                   utxo == request.commitTxPrevOutputList[k + 1]
               IN  /\ len = 1 + Cardinality(ContextsOf(k))
                   /\ 2 <= len /\ len <= 25
                   /\ Len(result.txChainTxIds[k + 1]) = len
                   /\ ResultTx(k, 0).ins[1].hash = reverseBuffer(utxo.txId)
                   /\ ResultTx(k, 0).ins[1].index = utxo.vOut
                   /\ \A i \in 1..(len - 1) :
                          /\ Len(ResultTx(k, i).ins[1].witness) = 3
                          /\ ResultTx(k, i).ins[1].witness[2]
                                 = inscriptionTxCtxDataList[24 * k + i].inscriptionScript

\* a result with a chain of the least length and one of the greatest
ChainLengthWitness ==
    /\ Succeeded
    /\ \E k \in 1..Len(result.txChains) : Len(result.txChains[k]) = 2
    /\ \E k \in 1..Len(result.txChains) : Len(result.txChains[k]) = 25

----------------------------------------------------------------------------
(* C4 *)

\* C4: no partial progress on failure.  A call that has returned has either
\* succeeded or failed, and a failed call returns success = false, a non-empty
\* error, empty txChains, txChainTxIds and lastTxDetails and a
\* totalEstimatedFee of 0, whatever the tool had assembled before the failure.
NoPartialProgress ==
    /\ pc = "done" <=> result.returned
    /\ Failed =>
           /\ result.success = FALSE
           /\ result.error.text # ""
           /\ result.txChains = << >>
           /\ result.txChainTxIds = << >>
           /\ result.lastTxDetails = << >>
           /\ result.totalEstimatedFee = 0

\* the call failed on its second chain, after the first one had been assembled
\* and its fees accumulated
NoPartialProgressWitness ==
    /\ Failed
    /\ Len(txChains) = 1
    /\ Len(txChains[1]) = 25
    /\ totalEstimatedFee > 0
    /\ result.error.text \in { "balance cannot cover initial commit fee",
                               "chain broken: balance cannot cover reveal fee + dust" }

----------------------------------------------------------------------------
(* C5 *)

\* C5: change script = next commit script.  In every chain the planner has
\* emitted, the commit's single output pays the commit script of the chain's
\* first inscription, output 1 of every reveal but the last pays the commit
\* script of the inscription revealed next, and the last reveal's output 1,
\* when there is one, pays the script of the request's change address.
ChangeScriptIsNextCommitScript ==
    \A k \in 0..(Len(txChains) - 1) :
        LET chain == txChains[k + 1]
            last == Len(chain) - 1
        IN  /\ Len(chain[1].outs) = 1
            /\ chain[1].outs[1].script = ContextOf(k, 1).commitTxAddressPkScript
            /\ \A t \in 1..(last - 1) :
                   /\ Len(chain[t + 1].outs) = 2
                   /\ chain[t + 1].outs[2].script = ContextOf(k, t + 1).commitTxAddressPkScript
            /\ Len(chain[last + 1].outs) >= 2 =>
                   chain[last + 1].outs[2].script = toOutputScript(request.changeAddress)

\* a signed chain of 25: 23 reveals pay the next commit script, the last one
\* pays the change address
ChangeScriptWitness ==
    /\ pc = "package"
    /\ Len(txChains[1]) = 25
    /\ Len(txChains[1][25].outs) = 2
    /\ txChains[1][2].outs[2].script # txChains[1][3].outs[2].script

----------------------------------------------------------------------------
(* C6 *)

\* C6: only the tail may drop change.  In every emitted chain a reveal has one
\* input and one or two outputs, two unless it reveals the last inscription
\* assigned to the chain.  The 'non-final reveal must carry change' error is
\* raised at a reveal that is not the last of its chain and whose balance pays
\* for the reveal without change, and the chain it stops is not emitted; a
\* later reveal that cannot be paid for at all found a balance that was a
\* change output, never the nothing left by a dropped one.
OnlyTailDropsChange ==
    LET n == Len(request.inscriptionDataList)
        args == result.error.args
    IN  /\ \A k \in 0..(Len(txChains) - 1) :
               \A t \in 1..(Len(txChains[k + 1]) - 1) :
                   LET tx == txChains[k + 1][t + 1]
                   IN  /\ Len(tx.ins) = 1
                       /\ Len(tx.outs) \in {1, 2}
                       /\ tx.outs[1].value = RevealOutValueInForce(request)
                       /\ Len(tx.outs) = 1 => t = Min(24, n - 24 * k)
        /\ (Failed /\ result.error.text = "chain broken: non-final reveal must carry change") =>
               /\ args[2] < Min(24, n - 24 * args[1]) - 1
               /\ args[3] >= args[5] + args[4]
               /\ Len(txChains) = args[1]
        /\ (Failed /\ result.error.text = "chain broken: balance cannot cover reveal fee + dust"
                   /\ args[2] >= 1) =>
               args[3] >= MinChangeValueInForce(request)

\* the build stopped at a reveal that could only be paid for without change
\* and was not the last of its chain
OnlyTailDropsChangeWitness ==
    /\ Failed
    /\ result.error.text = "chain broken: non-final reveal must carry change"
    /\ result.error.args[3] >= result.error.args[5] + result.error.args[4]

----------------------------------------------------------------------------
(* C7 *)

\* C7: dust floor.  In every successful result a reveal's output 1, when
\* present, is worth at least the minimum change value in force: the
\* request's, or 546 when the request gives none.
DustFloor ==
    Succeeded =>
        \A k \in 0..(Len(result.txChains) - 1) :
            \A i \in 1..(Len(result.txChains[k + 1]) - 1) :
                Len(ResultTx(k, i).outs) >= 2 =>
                    ResultTx(k, i).outs[2].value >=
                        (IF request.minChangeValue # 0 THEN request.minChangeValue
                         ELSE DEFAULT_MIN_CHANGE_VALUE)

\* a result where one chain ends with a change output and another ends without
\* one, under a minimum the request sets itself
DustFloorWitness ==
    /\ Succeeded
    /\ request.minChangeValue > DEFAULT_MIN_CHANGE_VALUE
    /\ Len(result.txChains) = 2
    /\ Len(ResultTx(0, 24).outs) = 2
    /\ Len(ResultTx(1, Len(result.txChains[2]) - 1).outs) = 1

----------------------------------------------------------------------------
(* C8 *)

\* C8: fee total.  The totalEstimatedFee of a successful result is the sum of
\* the fees in the ledger txFees, and the ledger has exactly one entry for
\* every transaction of every returned chain and no other entry.
FeeTotal ==
    Succeeded =>
        /\ result.totalEstimatedFee = SumFees(txFees)
        /\ \A k \in 0..(Len(result.txChains) - 1) :
               \A t \in 0..(Len(result.txChains[k + 1]) - 1) :
                   Cardinality({ j \in 1..Len(txFees) :
                                   txFees[j].chainIndex = k /\ txFees[j].txIndex = t }) = 1
        /\ \A j \in 1..Len(txFees) :
               /\ txFees[j].chainIndex \in 0..(Len(result.txChains) - 1)
               /\ txFees[j].txIndex \in 0..(Len(result.txChains[txFees[j].chainIndex + 1]) - 1)
               /\ txFees[j].fee > 0

\* the fees of two chains, 32 transactions, add up to the reported total
FeeTotalWitness ==
    /\ Succeeded
    /\ Len(result.txChains) = 2
    /\ Len(txFees) = 32
    /\ result.totalEstimatedFee > txFees[1].fee + txFees[26].fee

----------------------------------------------------------------------------
(* C9 *)

\* C9: final reveal accounting.  The last reveal of every chain of a
\* successful result either has a change output worth at least the minimum
\* change value in force, or has no change output, and then the value of the
\* output it spends is exactly the reveal output value plus the fee recorded
\* for it, in the ledger and in the chain's LastTxInfo.
FinalRevealAccounting ==
    Succeeded =>
        \A k \in 0..(Len(result.txChains) - 1) :
            LET last == Len(result.txChains[k + 1]) - 1
                tx == ResultTx(k, last)
                spent == ResultTx(k, last - 1).outs[tx.ins[1].index + 1].value
                fee == txFees[FindIndex(txFees, k, last)].fee
            IN  IF Len(tx.outs) >= 2
                THEN tx.outs[2].value >= MinChangeValueInForce(request)
                ELSE /\ result.lastTxDetails[k + 1].fee = fee
                     /\ spent = tx.outs[1].value + fee

\* C9, with "at least" for "exactly": the last reveal of every chain of a
\* successful result either has a change output worth at least the minimum
\* change value in force, or has no change output, and then the value of the
\* output it spends is at least the reveal output value plus the fee recorded
\* for it, which is the same in the ledger and in the chain's LastTxInfo.
FinalRevealCovered ==
    Succeeded =>
        \A k \in 0..(Len(result.txChains) - 1) :
            LET last == Len(result.txChains[k + 1]) - 1
                tx == ResultTx(k, last)
                spent == ResultTx(k, last - 1).outs[tx.ins[1].index + 1].value
                fee == txFees[FindIndex(txFees, k, last)].fee
            IN  IF Len(tx.outs) >= 2
                THEN tx.outs[2].value >= MinChangeValueInForce(request)
                ELSE /\ result.lastTxDetails[k + 1].fee = fee
                     /\ result.lastTxDetails[k + 1].inputValue = spent
                     /\ spent >= tx.outs[1].value + fee

\* a chain whose last reveal has no change output and spends more than the
\* reveal output value and the recorded fee together
FinalRevealCoveredWitness ==
    /\ Succeeded
    /\ Len(result.txChains) = 1
    /\ Len(ResultTx(0, Len(result.txChains[1]) - 1).outs) = 1
    /\ result.lastTxDetails[1].inputValue
           > RevealOutValueInForce(request) + result.lastTxDetails[1].fee

----------------------------------------------------------------------------
(* C10 *)

\* C10, as stated: whenever the request has fewer funding outputs m than the
\* ceil(n / 24) chains its n inscriptions need and the planner has assembled a
\* chain from each of the m, the call fails with the 'UTXO count insufficient'
\* error naming m and n, empty collections and a total fee of 0.
InsufficientFundingCountAsStated ==
    LET n == Len(request.inscriptionDataList)
        m == Len(request.commitTxPrevOutputList)
    IN  (result.returned /\ m < CeilDiv(n, 24) /\ Len(txChains) = m) =>
            /\ Failed
            /\ result.error = Error("UTXO count insufficient", << m, n >>)
            /\ result.txChains = << >>
            /\ result.txChainTxIds = << >>
            /\ result.lastTxDetails = << >>
            /\ result.totalEstimatedFee = 0

\* C10, for a request with at least one funding output: the same, and the
\* 'UTXO count insufficient' error arises in no other situation.
InsufficientFundingCount ==
    LET n == Len(request.inscriptionDataList)
        m == Len(request.commitTxPrevOutputList)
    IN  /\ (result.returned /\ m >= 1 /\ m < CeilDiv(n, 24) /\ Len(txChains) = m) =>
               /\ Failed
               /\ result.error = Error("UTXO count insufficient", << m, n >>)
               /\ result.txChains = << >>
               /\ result.txChainTxIds = << >>
               /\ result.lastTxDetails = << >>
               /\ result.totalEstimatedFee = 0
        /\ (Failed /\ result.error.text = "UTXO count insufficient") =>
               m >= 1 /\ m < CeilDiv(n, 24) /\ Len(txChains) = m

\* 30 inscriptions on one funding output: the chain of 25 was assembled, then
\* the planner found no funding output for the other 6 inscriptions
InsufficientFundingCountWitness ==
    /\ Failed
    /\ result.error = Error("UTXO count insufficient", << 1, 30 >>)
    /\ Len(txChains) = 1
    /\ inscriptionStartIndex = 24

----------------------------------------------------------------------------
(* C11 *)

\* the fees the ledger holds for the transactions of a chain before txIndex
FeesBefore(chainIndex, txIndex) ==
    SumFees(SelectSeq(txFees, LAMBDA f : f.chainIndex = chainIndex /\ f.txIndex < txIndex))

\* what is left of a chain's funding output when the reveal at txIndex >= 1 is
\* assembled: every earlier transaction has paid its fee, every earlier reveal
\* its reveal output
BalanceBefore(chainIndex, txIndex) ==
    request.commitTxPrevOutputList[chainIndex + 1].amount
        - FeesBefore(chainIndex, txIndex)
        - (txIndex - 1) * RevealOutValueInForce(request)

\* the fee of the reveal of context contextIndex with the reveal output alone
FeeWithoutChangeOf(contextIndex) ==
    LET ctx == inscriptionTxCtxDataList[contextIndex + 1]
        tx == addOutput(addInput(NewTransaction, [order |-> "le", bytes |-> [digest |-> 0]],
                                 0, DEFAULT_SEQUENCE_NUM),
                        ctx.revealPkScript, RevealOutValueInForce(request))
    IN  FeeForVsize(countAdjustedVsize(TxForEstimate(tx, << >>, FALSE, ctx)),
                    request.revealFeeRate)

\* C11: broken chain.  A reveal is assembled, and entered in the ledger, only
\* when the balance left by the previous transaction covers the reveal output
\* value plus the fee of the reveal without change; the 'non-final reveal must
\* carry change' error is raised only on such a balance too; so a reveal whose
\* balance is less ends the call, and it ends it with the 'balance cannot cover
\* reveal fee + dust' error, which names that balance and is raised on no
\* other balance, with success = false and empty collections.
BrokenChain ==
    LET out == RevealOutValueInForce(request)
        args == result.error.args
    IN  /\ \A j \in 1..Len(txFees) :
               txFees[j].txIndex >= 1 =>
                   BalanceBefore(txFees[j].chainIndex, txFees[j].txIndex)
                       >= out + FeeWithoutChangeOf(24 * txFees[j].chainIndex
                                                   + txFees[j].txIndex - 1)
        /\ (Failed /\ result.error.text = "chain broken: non-final reveal must carry change") =>
               /\ args[3] = BalanceBefore(args[1], args[2] + 1)
               /\ args[3] >= out + FeeWithoutChangeOf(24 * args[1] + args[2])
        /\ (Failed /\ result.error.text = "chain broken: balance cannot cover reveal fee + dust") =>
               /\ args[3] = BalanceBefore(args[1], args[2] + 1)
               /\ args[3] < out + FeeWithoutChangeOf(24 * args[1] + args[2])
               /\ args[5] = out
               /\ result.txChains = << >>
               /\ result.txChainTxIds = << >>
               /\ result.lastTxDetails = << >>
        /\ Failed => result.error.text \notin { "cannot determine reveal change address",
                                                "unexpected change amount" }

\* the second chain broke at a reveal after its first, which was not its last
BrokenChainWitness ==
    /\ Failed
    /\ result.error.text = "chain broken: balance cannot cover reveal fee + dust"
    /\ result.error.args[1] = 1
    /\ result.error.args[2] >= 1
    /\ result.error.args[2] < Len(request.inscriptionDataList) - 24 - 1

----------------------------------------------------------------------------
(* C12 *)

\* the fee of the commit that spends funding output chainIndex, sized as signed
CommitFeeOf(chainIndex) ==
    LET utxo == request.commitTxPrevOutputList[chainIndex + 1]
        tx == addOutput(addInput(NewTransaction, reverseBuffer(utxo.txId), utxo.vOut,
                                 DEFAULT_SEQUENCE_NUM),
                        inscriptionTxCtxDataList[24 * chainIndex + 1].commitTxAddressPkScript, 0)
    IN  FeeForVsize(countAdjustedVsize(signTx(tx, << utxo >>, 0)), request.commitFeeRate)

\* the ledger and ContextMap entries recorded for a chain
EntriesOf(chainIndex) ==
    Len(SelectSeq(txFees, LAMBDA f : f.chainIndex = chainIndex))
        + Len(SelectSeq(chainContextMapping, LAMBDA e : e.chainIndex = chainIndex))

\* C12: commit funding.  A commit is entered in the ledger only with a fee its
\* funding output covers, and the single output of an emitted commit is worth
\* the funding value minus that fee; the commit-funding error is raised only
\* when the funding value minus the commit fee is negative, and then the
\* ledger and the ContextMap hold no entry of that chain, the chain is not
\* emitted and the fee total is the sum of the fees of the chains before it.
CommitFunding ==
    LET list == request.commitTxPrevOutputList
        args == result.error.args
    IN  /\ \A j \in 1..Len(txFees) :
               txFees[j].txIndex = 0 =>
                   /\ txFees[j].fee = CommitFeeOf(txFees[j].chainIndex)
                   /\ list[txFees[j].chainIndex + 1].amount - txFees[j].fee >= 0
        /\ \A k \in 0..(Len(txChains) - 1) :
               /\ Len(txChains[k + 1][1].outs) = 1
               /\ txChains[k + 1][1].outs[1].value = list[k + 1].amount - CommitFeeOf(k)
        /\ (Failed /\ result.error.text = "balance cannot cover initial commit fee") =>
               /\ args[4] = list[args[1] + 1].amount
               /\ args[5] = CommitFeeOf(args[1])
               /\ args[4] - args[5] < 0
               /\ EntriesOf(args[1]) = 0
               /\ Len(txChains) = args[1]
               /\ totalEstimatedFee = SumFees(txFees)

\* the second chain's funding output could not pay its commit: the ledger
\* holds the 25 entries of the first chain and nothing more
CommitFundingWitness ==
    /\ Failed
    /\ result.error.text = "balance cannot cover initial commit fee"
    /\ result.error.args[1] = 1
    /\ Len(txFees) = 25
    /\ totalEstimatedFee > 0

----------------------------------------------------------------------------
(* C13 *)

\* C13: validation.  A request with no funding output, with no inscription or
\* with a funding entry that has no private key never gets past the first
\* step: no context, transaction, ledger entry, ContextMap entry, hash or
\* signature draw exists in any state, and the run ends with success = false,
\* an error that names the defect and empty collections.  A request with none
\* of these defects is never answered with one of the three errors.
Validation ==
    LET list == request.commitTxPrevOutputList
        noFunding == Len(list) = 0
        noInscription == Len(request.inscriptionDataList) = 0
        noKey == \E k \in 1..Len(list) : list[k].privateKey = ""
        texts == { "commitTxPrevOutputList must not be empty",
                   "inscriptionDataList must not be empty",
                   "funding entry lacks privateKey" }
    IN  /\ (noFunding \/ noInscription \/ noKey) =>
               /\ inscriptionTxCtxDataList = << >>
               /\ txChains = << >>
               /\ txFees = << >>
               /\ chainContextMapping = << >>
               /\ totalEstimatedFee = 0
               /\ hashed = << >>
               /\ randomDraws = 0
               /\ pc \in { "start", "done" }
               /\ pc = "done" =>
                      /\ Failed
                      /\ result.error.text \in texts
                      /\ noFunding =>
                             result.error.text = "commitTxPrevOutputList must not be empty"
                      /\ (~noFunding /\ noInscription) =>
                             result.error.text = "inscriptionDataList must not be empty"
                      /\ result.error.text = "funding entry lacks privateKey" =>
                             /\ list[result.error.args[1] + 1].privateKey = ""
                             /\ \A k \in 1..result.error.args[1] : list[k].privateKey # ""
                      /\ result.txChains = << >>
                      /\ result.txChainTxIds = << >>
                      /\ result.lastTxDetails = << >>
                      /\ result.totalEstimatedFee = 0
        /\ (Failed /\ result.error.text \in texts) => (noFunding \/ noInscription \/ noKey)

\* a request whose second funding entry lacks its key, rejected
ValidationWitness ==
    /\ Failed
    /\ result.error.text = "funding entry lacks privateKey"
    /\ result.error.args[1] = 1
    /\ Len(request.inscriptionDataList) > 0

----------------------------------------------------------------------------
(* C14 *)

\* C14: primary-key reuse.  Every context carries the key of funding output 0,
\* as raw key and as the internal key of its inscription script and control
\* block; in a successful result the signature of every reveal of every chain
\* is made with that key, and every LastTxInfo names the WIF of funding
\* output 0 as signing key, whatever key the chain's own funding output has.
PrimaryKeyReuse ==
    LET wif0 == request.commitTxPrevOutputList[1].privateKey
    IN  /\ \A j \in 1..Len(inscriptionTxCtxDataList) :
               LET ctx == inscriptionTxCtxDataList[j]
               IN  /\ private2Wif(ctx.privateKey) = wif0
                   /\ ctx.inscriptionScript.pub = XOnlyPublic(wif0)
                   /\ ctx.witness[2].internal = XOnlyPublic(wif0)
        /\ Succeeded =>
               /\ \A c \in 1..Len(result.txChains) :
                      \A t \in 2..Len(result.txChains[c]) :
                          LET tx == ResultTx(c - 1, t - 1)
                          IN  /\ Len(tx.ins[1].witness) >= 1
                              /\ \E k \in 1..randomDraws :
                                     tx.ins[1].witness[1] =
                                         SchnorrSignature(privateKeyFromWIF(wif0),
                                                          RandomBytes(k))
               /\ Len(result.lastTxDetails) = Len(result.txChains)
               /\ \A k \in 1..Len(result.lastTxDetails) :
                      result.lastTxDetails[k].signingPrivateKeyWIF = wif0

\* a successful run of two chains whose second funding output has another key
PrimaryKeyReuseWitness ==
    /\ Succeeded
    /\ Len(result.lastTxDetails) = 2
    /\ request.commitTxPrevOutputList[2].privateKey
           # request.commitTxPrevOutputList[1].privateKey
    /\ result.lastTxDetails[2].signingPrivateKeyWIF
           = request.commitTxPrevOutputList[1].privateKey

----------------------------------------------------------------------------
(* C15 *)

\* C15: the spent outpoint of a LastTxInfo.  In a successful result, for every
\* chain, the final reveal decoded from LastTxInfo.hex has a single input, the
\* txid that input references is LastTxInfo.inputTxId, its index is
\* LastTxInfo.inputVout, and LastTxInfo.inputValue is the value of that output
\* in the second-to-last transaction the result returns for the chain.
LastTxInfoSpentOutpoint ==
    Succeeded =>
        \A k \in 1..Len(result.lastTxDetails) :
            LET d == result.lastTxDetails[k]
                lastTx == d.hex.hex
                prevTx == ResultTx(k - 1, Len(result.txChains[k]) - 2)
            IN  /\ Len(lastTx.ins) = 1
                /\ reverseBuffer(lastTx.ins[1].hash) = d.inputTxId
                /\ lastTx.ins[1].index = d.inputVout
                /\ d.inputVout + 1 <= Len(prevTx.outs)
                /\ d.inputValue = prevTx.outs[d.inputVout + 1].value

----------------------------------------------------------------------------
(* C16 *)

\* C16: the scripts of a LastTxInfo.  In a successful result, for every chain,
\* prevInputPkScriptHex is the script of the output the final reveal spends
\* and the commit script of the chain's final context, revealPkScriptHex is
\* the script of the final inscription's recipient, tapScriptTreeHashHex is
\* the final context's leaf hash, and finalChangePkScriptHex is the output
\* script of the request's change address, with or without a change output
\* in the final reveal.
LastTxInfoScripts ==
    Succeeded =>
        \A k \in 1..Len(result.lastTxDetails) :
            LET d == result.lastTxDetails[k]
                length == Len(result.txChains[k])
                prevTx == ResultTx(k - 1, length - 2)
                final == inscriptionTxCtxDataList[24 * (k - 1) + length - 1]
                inscription == request.inscriptionDataList[24 * (k - 1) + length - 1]
            IN  /\ d.prevInputPkScriptHex = scriptToHex(prevTx.outs[d.inputVout + 1].script)
                /\ d.prevInputPkScriptHex = scriptToHex(final.commitTxAddressPkScript)
                /\ d.revealPkScriptHex = scriptToHex(toOutputScript(inscription.revealAddr))
                /\ d.tapScriptTreeHashHex = [hex |-> final.hash]
                /\ d.finalChangePkScriptHex = scriptToHex(toOutputScript(request.changeAddress))

----------------------------------------------------------------------------
(* C17 *)

----------------------------------------------------------------------------
(* C18 *)

\* C18: script-match assertion, in the runs of SpecFault.  Once the commit
\* script of a context has been altered between assembly and signing, the run
\* is never packaged: the chains before the one whose reveal is mapped to that
\* context are signed, then signing that chain signs its transactions up to
\* the reveal mapped to the context and stops there with the script-mismatch
\* error for that chain and that reveal; no later transaction and no later
\* chain is signed, and the result is success = false with empty collections.
\* The error is a function of the altered context alone.  Without an altered
\* context signing never fails.
ScriptMatchAssertion ==
    /\ \A j \in AlteredContexts :
           LET at == CHOOSE k \in 1..Len(chainContextMapping) :
                         chainContextMapping[k].contextIndex = j - 1
               c == chainContextMapping[at].chainIndex
               t == chainContextMapping[at].txIndex
               isSigned(tx) == tx.ins[1].witness # << >> \/ tx.ins[1].script # EmptyScript
           IN  /\ \E k \in 1..Len(chainContextMapping) :
                      chainContextMapping[k].contextIndex = j - 1
               /\ t >= 1
               /\ signChainIndex <= c + 1
               /\ pc = IF signChainIndex <= c THEN "sign" ELSE "done"
               /\ \A k \in 1..Len(txChains) : \A i \in 1..Len(txChains[k]) :
                      isSigned(txChains[k][i]) <=>
                          \/ k <= signChainIndex /\ k <= c
                          \/ k = signChainIndex /\ k = c + 1 /\ i - 1 < t
               /\ signChainIndex = c + 1 =>
                      /\ Failed
                      /\ result.error =
                             Error("sign error",
                                   << c, Error("sign: spent script does not match the context",
                                               << c, t >>) >>)
                      /\ result.txChains = << >>
                      /\ result.txChainTxIds = << >>
                      /\ result.lastTxDetails = << >>
                      /\ result.totalEstimatedFee = 0
    /\ (Failed /\ result.error.text = "sign error") => AlteredContexts # {}

\* the context of the third reveal of the second chain was altered: the first
\* chain and two reveals of the second were signed before the error
ScriptMatchAssertionWitness ==
    /\ Failed
    /\ result.error.text = "sign error"
    /\ result.error.args[1] = 1
    /\ result.error.args[2].args[2] = 3
    /\ AlteredContexts = { 24 + 3 }
    /\ txChains[2][3].ins[1].witness # << >>
    /\ txChains[2][4].ins[1].witness = << >>

----------------------------------------------------------------------------
(* C19 *)

\* C19: witness shape.  In every successful result each reveal has a single
\* input whose witness has exactly three elements: a Schnorr signature of 64
\* bytes, then the inscription script of the context mapped to the reveal,
\* then the 33-byte control block of that context.  The input of a commit
\* has a witness of at most two elements, none of them an inscription script
\* or a control block.
WitnessShape ==
    Succeeded =>
        \A k \in 0..(Len(result.txChains) - 1) :
            /\ LET witness == ResultTx(k, 0).ins[1].witness
               IN  /\ Len(ResultTx(k, 0).ins) = 1
                   /\ Len(witness) <= 2
                   /\ \A e \in 1..Len(witness) :
                          \A j \in 1..Len(inscriptionTxCtxDataList) :
                              /\ witness[e] # inscriptionTxCtxDataList[j].inscriptionScript
                              /\ witness[e] # inscriptionTxCtxDataList[j].witness[2]
            /\ \A i \in 1..(Len(result.txChains[k + 1]) - 1) :
                   LET witness == ResultTx(k, i).ins[1].witness
                       ctx == ContextOf(k, i)
                   IN  /\ Len(ResultTx(k, i).ins) = 1
                       /\ Len(witness) = 3
                       /\ \E a \in 1..randomDraws :
                              witness[1] = [sig |-> "schnorr", by |-> ctx.privateKey,
                                            len |-> 64, aux |-> RandomBytes(a)]
                       /\ witness[2] = ctx.inscriptionScript
                       /\ witness[3] = ctx.witness[2]
                       /\ witness[3] = [version |-> 192, internal |-> ctx.inscriptionScript.pub,
                                         len |-> 33]

\* two signed chains on taproot funding outputs: the commits carry a key-path
\* witness of one signature, the reveals the script-path witness
WitnessShapeWitness ==
    /\ Succeeded
    /\ Len(result.txChains) = 2
    /\ Len(ResultTx(0, 0).ins[1].witness) = 1
    /\ ResultTx(0, 0).ins[1].witness[1].sig = "schnorr"
    /\ Len(ResultTx(1, 1).ins[1].witness) = 3
    /\ ResultTx(1, 1).ins[1].witness[2] = inscriptionTxCtxDataList[25].inscriptionScript

----------------------------------------------------------------------------
(* C20 *)

----------------------------------------------------------------------------
(* C21 *)

\* C21: randomness use.  In a successful run the randomness source has been
\* drawn as many times as the result has reveal transactions, whatever the
\* address type of the funding outputs.
RandomnessUse ==
    Succeeded =>
        randomDraws =
            Cardinality({ r \in (1..Len(result.txChains)) \X (2..MAX_TRANSACTIONS_PER_CHAIN) :
                            r[2] <= Len(result.txChains[r[1]]) })

----------------------------------------------------------------------------
(* C22 *)

\* C22: phase order.  While chains are assembled every context exists and no
\* transaction is signed; a transaction is signed only when every inscription
\* has been placed in a chain; a result is packaged only when every
\* transaction of every chain is signed; and a run whose assembly failed has
\* signed no transaction and packaged nothing.
PhaseOrder ==
    LET n == Len(request.inscriptionDataList)
        isSigned(tx) == tx.ins[1].witness # << >> \/ tx.ins[1].script # EmptyScript
        signedSome == \E k \in 1..Len(txChains) : \E i \in 1..Len(txChains[k]) :
                          isSigned(txChains[k][i])
        signedAll == \A k \in 1..Len(txChains) : \A i \in 1..Len(txChains[k]) :
                         isSigned(txChains[k][i])
        assemblyErrors == { "UTXO count insufficient",
                            "balance cannot cover initial commit fee",
                            "chain broken: balance cannot cover reveal fee + dust",
                            "chain broken: non-final reveal must carry change" }
    IN  /\ pc \in { "build", "sign", "package" } => Len(inscriptionTxCtxDataList) = n
        /\ (txChains # << >> \/ txFees # << >>) => Len(inscriptionTxCtxDataList) = n
        /\ pc = "build" => (~signedSome /\ signChainIndex = 0 /\ ~result.returned)
        /\ signedSome => (pc \in { "sign", "package", "done" } /\ inscriptionStartIndex = n)
        /\ pc = "sign" =>
               /\ ~result.returned
               /\ \A k \in 1..Len(txChains) : \A i \in 1..Len(txChains[k]) :
                      isSigned(txChains[k][i]) <=> k <= signChainIndex
        /\ pc = "package" => (signedAll /\ signChainIndex = Len(txChains) /\ ~result.returned)
        /\ Succeeded => (signedAll /\ signChainIndex = Len(txChains)
                          /\ inscriptionStartIndex = n)
        /\ (Failed /\ result.error.text \in assemblyErrors) =>
               /\ ~signedSome
               /\ signChainIndex = 0
               /\ result.txChains = << >>
               /\ result.txChainTxIds = << >>
               /\ result.lastTxDetails = << >>

\* the first chain was assembled, the second failed: nothing is signed
PhaseOrderWitness ==
    /\ Failed
    /\ result.error.text = "chain broken: balance cannot cover reveal fee + dust"
    /\ Len(txChains) = 1
    /\ Len(txChains[1]) = 25
    /\ txChains[1][1].ins[1].witness = << >>
    /\ txChains[1][1].ins[1].script = EmptyScript

----------------------------------------------------------------------------
(* C23 *)

\* C23: the estimator's decision, in the runs of SpecEstimator.  For a reveal
\* candidate with a change slot, with fee the fee of the two-output shape and
\* feeWithoutChange the fee of the shape without the change output: the call
\* returns (fee, change), change = input - fixed output - fee, when change is
\* at least the minimum; otherwise it returns the change-dropped sentinel with
\* feeWithoutChange when the input covers the fixed output and
\* feeWithoutChange; otherwise the insufficient sentinel.  An input that does
\* not cover the fee with change but covers the fee without it gives the
\* change-dropped sentinel.  The candidate still has its two outputs.
EstimatorDecision ==
    estimate.returned =>
        LET tx == RevealCandidate(request, estimate.inscriptionCtx)
            sized(t) == [t EXCEPT !.ins[1].witness =
                            << EmptySignature >> \o estimate.inscriptionCtx.witness]
            feeOf(t) == LET vsize == countAdjustedVsize(sized(t))
                        IN  Max(CeilDiv(vsize * request.revealFeeRate.num,
                                        request.revealFeeRate.den), vsize)
            fee == feeOf(tx)
            feeWithoutChange == feeOf([tx EXCEPT !.outs = << tx.outs[1] >>])
            total == estimate.totalInputValue
            fixed == IF request.revealOutValue # 0 THEN request.revealOutValue
                     ELSE DEFAULT_REVEAL_OUT_VALUE
            minimum == IF request.minChangeValue # 0 THEN request.minChangeValue
                       ELSE DEFAULT_MIN_CHANGE_VALUE
            change == total - fixed - fee
        IN  /\ feeWithoutChange < fee
            /\ change >= minimum =>
                   (estimate.fee = fee /\ estimate.changeAmount = change)
            /\ (change < minimum /\ total - fixed - feeWithoutChange >= 0) =>
                   (estimate.fee = feeWithoutChange /\ estimate.changeAmount = CHANGE_DROPPED)
            /\ (change < minimum /\ total - fixed - feeWithoutChange < 0) =>
                   estimate.changeAmount = NegInfinity
            /\ (change < 0 /\ 0 <= total - fixed - feeWithoutChange) =>
                   estimate.changeAmount = CHANGE_DROPPED
            /\ estimate.tx = tx
            /\ Len(estimate.tx.outs) = 2

\* an input that covers the reveal output and the fee without change, but not
\* the fee with change: change dropped
EstimatorDecisionWitness ==
    /\ estimate.returned
    /\ estimate.changeAmount = CHANGE_DROPPED
    /\ request.revealOutValue = 330
    /\ estimate.totalInputValue - 330 - estimate.fee >= 0
    /\ estimate.totalInputValue - 330 - estimate.fee < 43

----------------------------------------------------------------------------
(* C24 *)

\* C24: fee formula.  In a successful result the fee the ledger records for
\* a transaction is max(ceil(vsize * feerate), vsize), with vsize the adjusted
\* virtual size of the transaction as returned (with its change output, or
\* without it when the change was dropped) and feerate the commit fee rate
\* for a commit and the reveal fee rate for a reveal; so no recorded fee is
\* below one satoshi per virtual byte.
FeeFormula ==
    Succeeded =>
        \A k \in 0..(Len(result.txChains) - 1) :
            \A t \in 0..(Len(result.txChains[k + 1]) - 1) :
                LET vsize == countAdjustedVsize(ResultTx(k, t))
                    feerate == IF t = 0 THEN request.commitFeeRate ELSE request.revealFeeRate
                    ceiling == CeilDiv(vsize * feerate.num, feerate.den)
                    fee == txFees[FindIndex(txFees, k, t)].fee
                IN  /\ FindIndex(txFees, k, t) # 0
                    /\ fee = IF ceiling >= vsize THEN ceiling ELSE vsize
                    /\ fee >= vsize

\* fee rates below 1: a final reveal that dropped its change is charged its
\* own size, 154 virtual bytes, and the reveal before it the size of a reveal
\* with change
FeeFormulaWitness ==
    /\ Succeeded
    /\ request.revealFeeRate = [num |-> 1, den |-> 2]
    /\ Len(result.txChains[1]) >= 3
    /\ Len(ResultTx(0, Len(result.txChains[1]) - 1).outs) = 1
    /\ txFees[Len(result.txChains[1])].fee = 154
    /\ txFees[Len(result.txChains[1]) - 1].fee = 197

----------------------------------------------------------------------------
(* C25 *)

\* C25: sequential fill mapping.  The ContextMap holds exactly one entry for
\* every transaction assembled so far, with the null context for a commit
\* and context 24 * chain + index - 1 for a reveal.  In a successful result
\* inscription j of the request is revealed by transaction (j mod 24) + 1 of
\* chain j div 24: that transaction carries inscription j's script in its
\* witness, its output 0 pays inscription j's recipient the reveal output
\* value in force, and the ContextMap gives it context j; the ContextMap has
\* as many entries as the result has transactions.
SequentialFillMapping ==
    /\ \A e \in 1..Len(chainContextMapping) :
           LET entry == chainContextMapping[e]
           IN  /\ \A f \in 1..Len(chainContextMapping) :
                      (chainContextMapping[f].chainIndex = entry.chainIndex
                       /\ chainContextMapping[f].txIndex = entry.txIndex) => f = e
               /\ entry.txIndex \in 0..24
               /\ entry.contextIndex = IF entry.txIndex = 0 THEN NullContext
                                       ELSE 24 * entry.chainIndex + entry.txIndex - 1
    /\ \A k \in 1..Len(txChains) : \A t \in 1..Len(txChains[k]) :
           FindIndex(chainContextMapping, k - 1, t - 1) # 0
    /\ Succeeded =>
           /\ \A j \in 0..(Len(request.inscriptionDataList) - 1) :
                  LET k == j \div 24
                      t == (j % 24) + 1
                      inscription == request.inscriptionDataList[j + 1]
                      at == FindIndex(chainContextMapping, k, t)
                  IN  /\ k + 1 <= Len(result.txChains)
                      /\ t + 1 <= Len(result.txChains[k + 1])
                      /\ ResultTx(k, t).ins[1].witness[2].body = inscription.body.nonce
                      /\ ResultTx(k, t).outs[1].script = toOutputScript(inscription.revealAddr)
                      /\ ResultTx(k, t).outs[1].value =
                             (IF request.revealOutValue # 0 THEN request.revealOutValue
                              ELSE DEFAULT_REVEAL_OUT_VALUE)
                      /\ at # 0
                      /\ chainContextMapping[at].contextIndex = j
           /\ \A k \in 0..(Len(result.txChains) - 1) :
                  /\ FindIndex(chainContextMapping, k, 0) # 0
                  /\ chainContextMapping[FindIndex(chainContextMapping, k, 0)].contextIndex
                         = NullContext
                  /\ Cardinality({ e \in 1..Len(chainContextMapping) :
                                     chainContextMapping[e].chainIndex = k })
                         = Len(result.txChains[k + 1])
           /\ \A e \in 1..Len(chainContextMapping) :
                  chainContextMapping[e].chainIndex < Len(result.txChains)

\* thirty inscriptions: number 24 is revealed by transaction 1 of chain 1 and
\* number 29 by transaction 6
SequentialFillMappingWitness ==
    /\ Succeeded
    /\ Len(request.inscriptionDataList) = 30
    /\ Len(result.txChains) = 2
    /\ ResultTx(1, 1).outs[1].script = toOutputScript(RevealAddressOf(24))
    /\ ResultTx(1, 6).outs[1].script = toOutputScript(RevealAddressOf(29))
    /\ Len(chainContextMapping) = 32

----------------------------------------------------------------------------
(* C26 *)

\* C26: one chain per funding output.  In a successful result the commit of
\* chain k has one input, which spends funding output k of the request (its
\* txid and vout) and is signed with the key of funding output k; no other
\* transaction of the result spends a funding output, so the funding outputs
\* from the number of chains onwards are spent by no transaction.
OneChainPerFundingOutput ==
    Succeeded =>
        LET list == request.commitTxPrevOutputList
            spends(tx, u) == \E i \in 1..Len(tx.ins) :
                                 /\ tx.ins[i].hash = reverseBuffer(list[u].txId)
                                 /\ tx.ins[i].index = list[u].vOut
            signers(in) == { in.witness[e].by : e \in { e \in 1..Len(in.witness) :
                                                          "by" \in DOMAIN in.witness[e] } }
                           \cup { in.script[e].by : e \in { e \in 1..Len(in.script) :
                                                          "by" \in DOMAIN in.script[e] } }
        IN  /\ Len(result.txChains) <= Len(list)
            /\ \A k \in 1..Len(result.txChains) :
                   LET commit == ResultTx(k - 1, 0)
                       key == privateKeyFromWIF(list[k].privateKey)
                   IN  /\ Len(commit.ins) = 1
                       /\ spends(commit, k)
                       /\ signers(commit.ins[1]) =
                              { IF list[k].address.type = "segwit_taproot"
                                THEN [priv |-> key.priv, tweaked |-> TRUE]
                                ELSE key }
                       /\ \A u \in 1..Len(list) : \A t \in 1..Len(result.txChains[k]) :
                              spends(ResultTx(k - 1, t - 1), u) => (u = k /\ t = 1)

\* two chains on two funding outputs with different keys, each commit signed
\* with the key of its own funding output
OneChainPerFundingOutputWitness ==
    /\ Succeeded
    /\ Len(result.txChains) = 2
    /\ request.commitTxPrevOutputList[1].address.type = "legacy"
    /\ ResultTx(0, 0).ins[1].script[1].by = [priv |-> "wifA"]
    /\ ResultTx(1, 0).ins[1].script[1].by = [priv |-> "wifB"]

----------------------------------------------------------------------------
(* C27 *)

\* C27: no retry for a chain.  A chain that was begun and not completed ends
\* the run in the same step: the result is the failure with that chain's own
\* error, the chains before it are the only ones assembled, the funding
\* cursor still stands on that chain's funding output, and the ledger and the
\* ContextMap hold nothing of a later chain.  The funding-count error is
\* reported only after every funding output has given its chain, so a chain
\* that cannot be funded is reported by its own error also when the funding
\* outputs are too few for the inscriptions.
NoChainRetry ==
    LET chainErrors == { "balance cannot cover initial commit fee",
                         "chain broken: balance cannot cover reveal fee + dust",
                         "chain broken: non-final reveal must carry change" }
        begun == { txFees[j].chainIndex : j \in 1..Len(txFees) }
        failedChain == result.error.args[1]
    IN  /\ \A k \in begun :
               k >= Len(txChains) =>
                   /\ k = Len(txChains)
                   /\ pc = "done"
                   /\ Failed
                   /\ result.error.text \in chainErrors
                   /\ failedChain = k
        /\ (Failed /\ result.error.text \in chainErrors) =>
               /\ failedChain = Len(txChains)
               /\ failedChain = currentUtxoIndex
               /\ inscriptionStartIndex = 24 * failedChain
               /\ inscriptionStartIndex < Len(request.inscriptionDataList)
               /\ \A j \in 1..Len(txFees) : txFees[j].chainIndex <= failedChain
               /\ \A j \in 1..Len(chainContextMapping) :
                      chainContextMapping[j].chainIndex <= failedChain
               /\ signChainIndex = 0
        /\ (Failed /\ result.error.text = "UTXO count insufficient") =>
               /\ Len(txChains) = Len(request.commitTxPrevOutputList)
               /\ currentUtxoIndex = Len(request.commitTxPrevOutputList)
        /\ pc = "build" =>
               (currentUtxoIndex = Len(txChains) /\ inscriptionStartIndex = 24 * Len(txChains))

\* thirty inscriptions and a single funding output that cannot pay for its
\* chain: the chain's own error is reported, not the funding count
NoChainRetryWitness ==
    /\ Failed
    /\ result.error.text = "chain broken: balance cannot cover reveal fee + dust"
    /\ result.error.args[1] = 0
    /\ Len(request.inscriptionDataList) = 30
    /\ Len(request.commitTxPrevOutputList) = 1

----------------------------------------------------------------------------
(* C28 *)

\* the value the transaction at txIndex of an assembled chain spends: the
\* funding output for the commit, the output of the previous transaction its
\* single input names for a reveal
SpentValue(chainIndex, txIndex) ==
    IF txIndex = 0
    THEN request.commitTxPrevOutputList[chainIndex + 1].amount
    ELSE LET tx == txChains[chainIndex + 1][txIndex + 1]
         IN  txChains[chainIndex + 1][txIndex].outs[tx.ins[1].index + 1].value

\* the sum of the output values of a transaction
RECURSIVE SumOutputValues(_)
SumOutputValues(outs) ==
    IF outs = << >> THEN 0 ELSE Head(outs).value + SumOutputValues(Tail(outs))

\* the fee the ledger records for the transaction at (chainIndex, txIndex)
LedgerFee(chainIndex, txIndex) == txFees[FindIndex(txFees, chainIndex, txIndex)].fee

\* C28: value conservation.  Every commit of an assembled chain, and every
\* reveal of it that has two outputs, spends exactly the sum of its output
\* values plus the fee the ledger records for it; so for a chain whose last
\* reveal has two outputs the funding value is the sum of the chain's ledger
\* fees, plus the reveal output value once per reveal, plus the value of the
\* last change output.  The transactions of a successful result carry the
\* same values.
ValueConservation ==
    /\ \A k \in 0..(Len(txChains) - 1) :
           LET chain == txChains[k + 1]
               last == Len(chain) - 1
           IN  /\ \A j \in 0..last :
                      (j = 0 \/ Len(chain[j + 1].outs) = 2) =>
                          /\ FindIndex(txFees, k, j) # 0
                          /\ SpentValue(k, j)
                                 = SumOutputValues(chain[j + 1].outs) + LedgerFee(k, j)
               /\ Len(chain[last + 1].outs) = 2 =>
                      request.commitTxPrevOutputList[k + 1].amount
                          = FeesBefore(k, last + 1)
                              + last * RevealOutValueInForce(request)
                              + chain[last + 1].outs[2].value
    /\ Succeeded =>
           \A k \in 0..(Len(result.txChains) - 1) :
               \A j \in 0..(Len(result.txChains[k + 1]) - 1) :
                   ResultTx(k, j).outs = txChains[k + 1][j + 1].outs

\* a successful chain of several reveals whose last reveal keeps its change
ValueConservationWitness ==
    /\ Succeeded
    /\ Len(result.txChains[1]) >= 3
    /\ Len(ResultTx(0, Len(result.txChains[1]) - 1).outs) = 2
    /\ ResultTx(0, Len(result.txChains[1]) - 1).outs[2].value > 0

----------------------------------------------------------------------------
(* C29 *)

\* C29: planner and signer agree.  In the runs where the contexts are left as
\* they were created, every reveal of every assembled chain has a ContextMap
\* entry, the entry of the reveal at transaction index j of chain k names
\* context 24k + j - 1, and the script of the output that reveal spends is the
\* commit script of that context; so signing never fails, and every reveal of
\* a chain the signer has passed carries its witness.
PlannerSignerAgreement ==
    /\ \A k \in 0..(Len(txChains) - 1) :
           LET chain == txChains[k + 1]
           IN  \A j \in 1..(Len(chain) - 1) :
                   LET at == FindIndex(chainContextMapping, k, j)
                       outputSpentIndex == chain[j + 1].ins[1].index
                   IN  /\ at # 0
                       /\ chainContextMapping[at].contextIndex # NullContext
                       /\ chainContextMapping[at].contextIndex = 24 * k + j - 1
                       /\ 24 * k + j <= Len(inscriptionTxCtxDataList)
                       /\ outputSpentIndex < Len(chain[j].outs)
                       /\ chain[j].outs[outputSpentIndex + 1].script
                              = inscriptionTxCtxDataList[24 * k + j].commitTxAddressPkScript
                       /\ k + 1 <= signChainIndex => chain[j + 1].ins[1].witness # << >>
    /\ ~(Failed /\ result.error.text = "sign error")
    /\ (pc = "done" /\ signChainIndex > 0) => (Succeeded /\ signChainIndex = Len(txChains))

\* two chains signed and packaged, the second with its six reveals
PlannerSignerAgreementWitness ==
    /\ Succeeded
    /\ Len(result.txChains) = 2
    /\ Len(result.txChains[2]) = 7
    /\ signChainIndex = 2
    /\ ResultTx(1, 6).ins[1].witness # << >>

----------------------------------------------------------------------------
(* C30 *)

\* the errors buildSingleUtxoChain throws
AssemblyErrors ==
    { "balance cannot cover initial commit fee",
      "cannot determine reveal change address",
      "chain broken: balance cannot cover reveal fee + dust",
      "chain broken: non-final reveal must carry change",
      "unexpected change amount" }

\* the calls of buildSingleUtxoChain so far: one for each funding output the
\* cursor has passed, and the one that threw
AssemblerCalls ==
    currentUtxoIndex + IF Failed /\ result.error.text \in AssemblyErrors THEN 1 ELSE 0

\* one iteration of the planner loop either fails, the cursors left where they
\* were, or moves the inscription cursor on by 1 to 24 and the funding cursor
\* by exactly 1; no other step moves a cursor
PlannerIteration ==
    IF pc = "build"
    THEN \/ /\ pc' = "done"
            /\ result'.returned /\ ~result'.success
            /\ UNCHANGED << inscriptionStartIndex, currentUtxoIndex >>
         \/ /\ (inscriptionStartIndex' - inscriptionStartIndex) \in 1..24
            /\ inscriptionStartIndex' <= Len(request.inscriptionDataList)
            /\ currentUtxoIndex' = currentUtxoIndex + 1
            /\ UNCHANGED result
    ELSE UNCHANGED << inscriptionStartIndex, currentUtxoIndex >>

\* a request with n >= 1 inscriptions and m >= 1 funding outputs
HasWork ==
    Len(request.inscriptionDataList) >= 1 /\ Len(request.commitTxPrevOutputList) >= 1

\* the fields of the result envelope of inscribeChain
ResultEnvelope ==
    { "success", "returned", "error", "txChains", "txChainTxIds", "lastTxDetails",
      "totalEstimatedFee" }

\* C30: termination.  For a request with n >= 1 inscriptions and m >= 1
\* funding outputs, every iteration of the planner loop either fails or moves
\* the inscription cursor on by 1 to 24 and the funding cursor by exactly 1,
\* buildSingleUtxoChain is called at most min(m, ceil(n / 24)) times, and the
\* call of inscribeChain comes to its return with a result envelope, which
\* then stays as returned; until the return a step remains to be taken.
PlannerTerminates ==
    /\ [][HasWork => PlannerIteration]_vars
    /\ [](HasWork => AssemblerCalls <= Min(Len(request.commitTxPrevOutputList),
                                           CeilDiv(Len(request.inscriptionDataList), 24)))
    /\ [](result.returned <=> ~Running)
    /\ [](result.returned => (pc = "done" /\ DOMAIN result = ResultEnvelope))
    /\ HasWork ~> result.returned
    /\ [][result.returned => result' = result]_vars

\* the planner loop has run twice, 24 inscriptions and then 6, and the call
\* has returned
PlannerTerminatesWitness ==
    /\ result.returned
    /\ Len(request.inscriptionDataList) = 30
    /\ Len(request.commitTxPrevOutputList) = 2
    /\ currentUtxoIndex = 2
    /\ inscriptionStartIndex = 30
    /\ AssemblerCalls = 2

====
